---------------------------- MODULE Spec2Model ----------------------------
(***************************************************************************)
(* A model of the async-socket crate: the wraparound ring buffer           *)
(* (util/circular_buf.rs) and the socket components that drive it          *)
(* (io/sender.rs, io/receiver.rs, io/acceptor.rs, io/common.rs).           *)
(*                                                                         *)
(* Every handler of the crate takes its component's mutex for its whole    *)
(* body, so each handler is one atomic action.  The public async methods   *)
(* (write, read, accept) are loops of such handlers and are modelled as a  *)
(* task with a program counter.                                            *)
(***************************************************************************)
EXTENDS Integers, Sequences, FiniteSets, TLC

(***************************************************************************)
(* Bounds of the model.                                                    *)
(***************************************************************************)
\* Largest storage length of a standalone CircularBuf (capacity is len - 1).
MaxBufLen == 3
\* Total number of bytes a standalone CircularBuf run may accept.
MaxStream == 5
\* Longest slice handed to produce / consume / write / read.
MaxChunk == 3

\* The byte values that are told apart.
Bytes == {0, 1}

Min(a, b) == IF a <= b THEN a ELSE b

\* All byte slices of length 0..n.
Slices(n) == UNION {[1..k -> Bytes] : k \in 0..n}

IsPrefix(s, t) == Len(s) <= Len(t) /\ \A i \in 1..Len(s) : s[i] = t[i]

\* Option<T>: None is the empty tuple, Some(x) the one-element tuple.
None == <<>>
Some(x) == <<x>>

\* errno values (libc).
EAGAIN == 11
EPIPE == 32
\* The negative results a completion may deliver (-ECONNRESET, -ETIMEDOUT).
KernelErrors == {-104, -110}

\* Readiness events (crate::poll::Events).
Events_IN == "IN"
Events_OUT == "OUT"
Events_ERR == "ERR"
Events_HUP == "HUP"

(***************************************************************************)
(* CircularBuf (util/circular_buf.rs).  A buffer is the record             *)
(* [len, head, tail, mem]; mem is the externally owned storage ptr points  *)
(* to, indexed 0..len-1.                                                   *)
(***************************************************************************)
Range(s, e) == [start |-> s, end |-> e]
RangeLen(r) == r.end - r.start

\* from_raw_parts: head and tail start at 0 over the given storage.
from_raw_parts(mem, len) == [len |-> len, head |-> 0, tail |-> 0, mem |-> mem]

\* usize arithmetic wraps at the word size.  TLC's integers are narrower than
\* 64 bits, so the word is modelled with 16 bits; every length of the model
\* is far below it, and an underflow still shows as a huge value.
USIZE == 65536

usize_sub(a, b) == (a - b) % USIZE

capacity(b) == usize_sub(b.len, 1)

consumable(b) ==
    IF b.head <= b.tail THEN b.tail - b.head ELSE (b.len - b.head) + b.tail

producible(b) == usize_sub(capacity(b), consumable(b))

is_full(b) == producible(b) = 0

is_empty(b) == consumable(b) = 0

\* A slip: the wrapped part runs up to head instead of stopping one short.
ProducerRanges_upto_head(b) ==
    IF b.tail >= b.head
    THEN IF b.head > 0
         THEN <<Range(b.tail, b.len), Range(0, b.head)>>
         ELSE IF b.tail < b.len - 1
              THEN <<Range(b.tail, b.len - 1), Range(0, 0)>>
              ELSE <<Range(0, 0), Range(0, 0)>>
    ELSE IF b.tail < b.head - 1
         THEN <<Range(b.tail, b.head - 1), Range(0, 0)>>
         ELSE <<Range(0, 0), Range(0, 0)>>

\* The two ranges with_producer_view hands to its closure.
ProducerRanges(b) ==
    IF b.tail >= b.head
    THEN IF b.head > 0
         THEN <<Range(b.tail, b.len), Range(0, b.head - 1)>>
         ELSE IF b.tail < b.len - 1
              THEN <<Range(b.tail, b.len - 1), Range(0, 0)>>
              ELSE <<Range(0, 0), Range(0, 0)>>
    ELSE IF b.tail < b.head - 1
         THEN <<Range(b.tail, b.head - 1), Range(0, 0)>>
         ELSE <<Range(0, 0), Range(0, 0)>>

\* A slip: the cursor is advanced without the modulo.
with_producer_view_nowrap(b, bytes_produced) ==
    [b EXCEPT !.tail = b.tail + bytes_produced]

\* with_producer_view after its closure reported bytes_produced: tail advances.
with_producer_view(b, bytes_produced) ==
    [b EXCEPT !.tail = (b.tail + bytes_produced) % b.len]

\* A slip: the wrapped part of the consumer view runs one slot past tail.
ConsumerRanges_past_tail(b) ==
    IF b.head <= b.tail
    THEN <<Range(b.head, b.tail), Range(0, 0)>>
    ELSE <<Range(b.head, b.len), Range(0, b.tail + 1)>>

\* The two ranges with_consumer_view hands to its closure.
ConsumerRanges(b) ==
    IF b.head <= b.tail
    THEN <<Range(b.head, b.tail), Range(0, 0)>>
    ELSE <<Range(b.head, b.len), Range(0, b.tail)>>

\* A slip: the consumer cursor is advanced without the modulo.
with_consumer_view_nowrap(b, bytes_consumed) ==
    [b EXCEPT !.head = b.head + bytes_consumed]

\* with_consumer_view after its closure reported bytes_consumed: head advances.
with_consumer_view(b, bytes_consumed) ==
    [b EXCEPT !.head = (b.head + bytes_consumed) % b.len]

\* A slip: the copy stops at the end of the first segment.
produce_part0_only(b, data) ==
    LET r  == ProducerRanges(b)
        p0 == RangeLen(r[1])
        p1 == RangeLen(r[2])
        n0 == IF Len(data) <= p0 THEN Len(data) ELSE p0
        n1 == 0
        mem1 == [i \in DOMAIN b.mem |->
                   IF i >= r[1].start /\ i < r[1].start + n0
                   THEN data[i - r[1].start + 1]
                   ELSE IF i >= r[2].start /\ i < r[2].start + n1
                        THEN data[p0 + (i - r[2].start) + 1]
                        ELSE b.mem[i]]
    IN  [buf |-> with_producer_view([b EXCEPT !.mem = mem1], n0 + n1),
         n   |-> n0 + n1]

\* produce(buf): copy into part0, then the rest into part1, as far as it fits.
\* The result is [buf, n]: the buffer afterwards and the count returned.
produce(b, data) ==
    LET r  == ProducerRanges(b)
        p0 == RangeLen(r[1])
        p1 == RangeLen(r[2])
        n0 == IF Len(data) <= p0 THEN Len(data) ELSE p0
        n1 == IF Len(data) <= p0 THEN 0
              ELSE IF Len(data) - p0 <= p1 THEN Len(data) - p0 ELSE p1
        mem1 == [i \in DOMAIN b.mem |->
                   IF i >= r[1].start /\ i < r[1].start + n0
                   THEN data[i - r[1].start + 1]
                   ELSE IF i >= r[2].start /\ i < r[2].start + n1
                        THEN data[p0 + (i - r[2].start) + 1]
                        ELSE b.mem[i]]
    IN  [buf |-> with_producer_view([b EXCEPT !.mem = mem1], n0 + n1),
         n   |-> n0 + n1]

\* produce_without_copy(len): commit min(len, part0 + part1) bytes.
produce_without_copy(b, len) ==
    LET r == ProducerRanges(b)
        n == Min(len, RangeLen(r[1]) + RangeLen(r[2]))
    IN  [buf |-> with_producer_view(b, n), n |-> n]

\* consume(buf) for an output slice of length L: copy out of part0, then part1.
\* The result is [buf, n, data]: data is what was written to the caller's slice.
consume(b, L) ==
    LET r  == ConsumerRanges(b)
        p0 == RangeLen(r[1])
        p1 == RangeLen(r[2])
        n0 == IF L <= p0 THEN L ELSE p0
        n1 == IF L <= p0 THEN 0
              ELSE IF L - p0 <= p1 THEN L - p0 ELSE p1
        out == [i \in 1..(n0 + n1) |->
                  IF i <= n0 THEN b.mem[r[1].start + (i - 1)]
                  ELSE b.mem[r[2].start + (i - n0 - 1)]]
    IN  [buf  |-> with_consumer_view(b, n0 + n1),
         n    |-> n0 + n1,
         data |-> out]

\* consume_without_copy(len): drop min(len, part0 + part1) bytes.
consume_without_copy(b, len) ==
    LET r == ConsumerRanges(b)
        n == Min(len, RangeLen(r[1]) + RangeLen(r[2]))
    IN  [buf |-> with_consumer_view(b, n), n |-> n]

\* The bytes a consumer would see, oldest first (the consumer view, flattened).
Contents(b) == consume(b, consumable(b)).data

\* The bytes that sit in the next k slots of the producer view.
Uncommitted(b, k) ==
    [i \in 1..k |-> b.mem[(b.tail + (i - 1)) % b.len]]

(***************************************************************************)
(* Common (io/common.rs): the sticky error and the readiness bits shared   *)
(* by the components of one socket.                                        *)
(***************************************************************************)
Common_new == [error |-> None, pollee |-> {}]

Common_error(c) == c.error

\* A slip: the first error is kept.
set_error_keep_first(c, e) == IF c.error = None THEN [c EXCEPT !.error = Some(e)] ELSE c

set_error(c, e) == [c EXCEPT !.error = Some(e)]

\* Pollee::add and Pollee::remove on the readiness bits.
Pollee_add(c, ev) == [c EXCEPT !.pollee = @ \cup {ev}]
Pollee_remove(c, ev) == [c EXCEPT !.pollee = @ \ {ev}]

\* The readiness bits every poller is told of, whatever its mask: the
\* components raise only ERR on a failed completion, and only HUP on the
\* connector's shutdown, to reach tasks that poll for IN or for OUT.
Events_ALWAYS_POLL == {Events_ERR, Events_HUP}

\* Pollee::poll_by(mask, poller): the bits set among those of the mask and
\* those that are always polled.
poll_by(c, mask) == c.pollee \cap (mask \cup Events_ALWAYS_POLL)

\* A task suspended in Poller::wait is made runnable by any readiness update.
Woken(task, notified) ==
    IF task.pc = "wait" /\ notified # {} THEN [task EXCEPT !.pc = "try"] ELSE task

(***************************************************************************)
(* Sender (io/sender.rs).  The handlers are operators on a record          *)
(*   [inner, common, aux, notified, ret]                                   *)
(* of the state they run on: Sender::Inner, the socket's Common, the       *)
(* record of outside effects, the readiness bits passed to Pollee::add     *)
(* during the handler, and the handler's return value.                     *)
(***************************************************************************)
\* Inner::new(buf_size): an empty ring over fresh storage, nothing in flight.
Sender_Inner_new(mem, buf_size) ==
    [buf |-> from_raw_parts(mem, buf_size), pending_io |-> None, is_shutdown |-> FALSE]

Sender_aux_new == [shut_wr |-> <<>>, ok |-> TRUE, nsub |-> 0]

\* libc::shutdown(fd, SHUT_WR), recorded with the sender's state at the call.
shutdown_SHUT_WR(st, caller) ==
    [st EXCEPT !.aux.shut_wr =
        Append(@, [by        |-> caller,
                   buffered  |-> consumable(st.inner.buf),
                   in_flight |-> st.inner.pending_io # None])]

add_event(st, ev) ==
    [st EXCEPT !.common = Pollee_add(@, ev), !.notified = @ \cup {ev}]

\* flush_buf up to the submission: the two debug_asserts, the iovecs over the
\* consumer view, io_uring.writev, and the handle stored in pending_io.
flush_buf(st) ==
    LET handle == [id |-> st.aux.nsub, iov_len |-> consumable(st.inner.buf)]
    IN  [st EXCEPT
           !.aux.ok = @ /\ ~is_empty(st.inner.buf) /\ st.inner.pending_io = None,
           !.aux.nsub = 1 - @,
           !.inner.pending_io = Some(handle)]

\* A slip: the sticky error is consulted before the shutdown flag.
try_write_error_first(st, data) ==
    IF Common_error(st.common) # None
    THEN [st EXCEPT !.ret = Common_error(st.common)[1]]
    ELSE IF st.inner.is_shutdown
    THEN [st EXCEPT !.ret = -EPIPE]
    ELSE IF Len(data) = 0
    THEN [st EXCEPT !.ret = 0]
    ELSE LET r   == produce(st.inner.buf, data)
             st1 == [st EXCEPT !.inner.buf = r.buf]
             st2 == IF is_full(r.buf)
                    THEN [st1 EXCEPT !.common = Pollee_remove(@, Events_OUT)]
                    ELSE st1
         IN  IF r.n = 0
             THEN [st2 EXCEPT !.ret = -EAGAIN]
             ELSE [(IF st2.inner.pending_io = None THEN flush_buf(st2) ELSE st2)
                      EXCEPT !.ret = r.n]

\* A slip: would-block is signalled whenever the input did not fit entirely.
try_write_all_or_nothing(st, data) ==
    IF st.inner.is_shutdown
    THEN [st EXCEPT !.ret = -EPIPE]
    ELSE IF Common_error(st.common) # None
    THEN [st EXCEPT !.ret = Common_error(st.common)[1]]
    ELSE IF Len(data) = 0
    THEN [st EXCEPT !.ret = 0]
    ELSE LET r   == produce(st.inner.buf, data)
             st1 == [st EXCEPT !.inner.buf = r.buf]
             st2 == IF is_full(r.buf)
                    THEN [st1 EXCEPT !.common = Pollee_remove(@, Events_OUT)]
                    ELSE st1
         IN  IF r.n < Len(data)
             THEN [st2 EXCEPT !.ret = -EAGAIN]
             ELSE [(IF st2.inner.pending_io = None THEN flush_buf(st2) ELSE st2)
                      EXCEPT !.ret = r.n]

\* A slip: a flush is submitted whether or not one is pending.
try_write_always_flush(st, data) ==
    IF st.inner.is_shutdown
    THEN [st EXCEPT !.ret = -EPIPE]
    ELSE IF Common_error(st.common) # None
    THEN [st EXCEPT !.ret = Common_error(st.common)[1]]
    ELSE IF Len(data) = 0
    THEN [st EXCEPT !.ret = 0]
    ELSE LET r   == produce(st.inner.buf, data)
             st1 == [st EXCEPT !.inner.buf = r.buf]
             st2 == IF is_full(r.buf)
                    THEN [st1 EXCEPT !.common = Pollee_remove(@, Events_OUT)]
                    ELSE st1
         IN  IF r.n = 0
             THEN [st2 EXCEPT !.ret = -EAGAIN]
             ELSE [flush_buf(st2) EXCEPT !.ret = r.n]

\* A slip: the bytes are buffered and no flush is submitted.
try_write_no_flush(st, data) ==
    IF st.inner.is_shutdown
    THEN [st EXCEPT !.ret = -EPIPE]
    ELSE IF Common_error(st.common) # None
    THEN [st EXCEPT !.ret = Common_error(st.common)[1]]
    ELSE IF Len(data) = 0
    THEN [st EXCEPT !.ret = 0]
    ELSE LET r   == produce(st.inner.buf, data)
             st1 == [st EXCEPT !.inner.buf = r.buf]
             st2 == IF is_full(r.buf)
                    THEN [st1 EXCEPT !.common = Pollee_remove(@, Events_OUT)]
                    ELSE st1
         IN  IF r.n = 0
             THEN [st2 EXCEPT !.ret = -EAGAIN]
             ELSE [st2 EXCEPT !.ret = r.n]

\* try_write(buf).
try_write(st, data) ==
    IF st.inner.is_shutdown
    THEN [st EXCEPT !.ret = -EPIPE]
    ELSE IF Common_error(st.common) # None
    THEN [st EXCEPT !.ret = Common_error(st.common)[1]]
    ELSE IF Len(data) = 0
    THEN [st EXCEPT !.ret = 0]
    ELSE LET r   == produce(st.inner.buf, data)
             st1 == [st EXCEPT !.inner.buf = r.buf]
             st2 == IF is_full(r.buf)
                    THEN [st1 EXCEPT !.common = Pollee_remove(@, Events_OUT)]
                    ELSE st1
         IN  IF r.n = 0
             THEN [st2 EXCEPT !.ret = -EAGAIN]
             ELSE [(IF st2.inner.pending_io = None THEN flush_buf(st2) ELSE st2)
                      EXCEPT !.ret = r.n]

\* A slip: the half-close is issued as soon as shutdown is requested.
Sender_complete_fn_eager_close(st, retval) ==
    LET st1 == [st EXCEPT !.inner.pending_io = None]
        st2 == IF retval >= 0
               THEN LET c == [st1 EXCEPT
                                !.inner.buf = consume_without_copy(@, retval).buf]
                    IN  IF ~c.inner.is_shutdown THEN add_event(c, Events_OUT) ELSE c
               ELSE LET d == [st1 EXCEPT
                                !.inner.buf =
                                    consume_without_copy(@, consumable(@)).buf,
                                !.common = set_error(@, retval)]
                    IN  add_event(d, Events_ERR)
        st3 == IF st2.inner.is_shutdown
               THEN shutdown_SHUT_WR(st2, "complete_fn")
               ELSE st2
    IN  IF ~is_empty(st3.inner.buf) THEN flush_buf(st3) ELSE st3

\* A slip: the callback never issues the half-close.
Sender_complete_fn_no_close(st, retval) ==
    LET st1 == [st EXCEPT !.inner.pending_io = None]
        st2 == IF retval >= 0
               THEN LET c == [st1 EXCEPT
                                !.inner.buf = consume_without_copy(@, retval).buf]
                    IN  IF ~c.inner.is_shutdown THEN add_event(c, Events_OUT) ELSE c
               ELSE LET d == [st1 EXCEPT
                                !.inner.buf =
                                    consume_without_copy(@, consumable(@)).buf,
                                !.common = set_error(@, retval)]
                    IN  add_event(d, Events_ERR)
    IN  IF ~is_empty(st2.inner.buf) THEN flush_buf(st2) ELSE st2

\* A slip: a failed flush keeps the bytes and tries again.
Sender_complete_fn_keep_bytes(st, retval) ==
    LET st1 == [st EXCEPT !.inner.pending_io = None]
        st2 == IF retval >= 0
               THEN LET c == [st1 EXCEPT
                                !.inner.buf = consume_without_copy(@, retval).buf]
                    IN  IF ~c.inner.is_shutdown THEN add_event(c, Events_OUT) ELSE c
               ELSE LET d == [st1 EXCEPT !.common = set_error(@, retval)]
                    IN  add_event(d, Events_ERR)
    IN  IF ~is_empty(st2.inner.buf)
        THEN flush_buf(st2)
        ELSE IF st2.inner.is_shutdown
             THEN shutdown_SHUT_WR(st2, "complete_fn")
             ELSE st2

\* A slip: the success branch frees room without raising Events_OUT.
Sender_complete_fn_no_out(st, retval) ==
    LET st1 == [st EXCEPT !.inner.pending_io = None]
        st2 == IF retval >= 0
               THEN [st1 EXCEPT
                       !.inner.buf = consume_without_copy(@, retval).buf]
               ELSE LET d == [st1 EXCEPT
                                !.inner.buf =
                                    consume_without_copy(@, consumable(@)).buf,
                                !.common = set_error(@, retval)]
                    IN  add_event(d, Events_ERR)
    IN  IF ~is_empty(st2.inner.buf)
        THEN flush_buf(st2)
        ELSE IF st2.inner.is_shutdown
             THEN shutdown_SHUT_WR(st2, "complete_fn")
             ELSE st2

\* complete_fn(retval), the callback of a flush.
Sender_complete_fn(st, retval) ==
    LET st1 == [st EXCEPT !.inner.pending_io = None]
        st2 == IF retval >= 0
               THEN LET c == [st1 EXCEPT
                                !.inner.buf = consume_without_copy(@, retval).buf]
                    IN  IF ~c.inner.is_shutdown THEN add_event(c, Events_OUT) ELSE c
               ELSE LET d == [st1 EXCEPT
                                !.inner.buf =
                                    consume_without_copy(@, consumable(@)).buf,
                                !.common = set_error(@, retval)]
                    IN  add_event(d, Events_ERR)
    IN  IF ~is_empty(st2.inner.buf)
        THEN flush_buf(st2)
        ELSE IF st2.inner.is_shutdown
             THEN shutdown_SHUT_WR(st2, "complete_fn")
             ELSE st2

\* Sender::shutdown().
Sender_shutdown_fn(st) ==
    LET st1 == [st EXCEPT !.inner.is_shutdown = TRUE]
    IN  IF st1.inner.pending_io = None /\ is_empty(st1.inner.buf)
        THEN shutdown_SHUT_WR(st1, "shutdown")
        ELSE st1

(***************************************************************************)
(* Receiver (io/receiver.rs).  The handlers are operators on a record      *)
(*   [inner, common, aux, notified, ret]                                   *)
(* as for the Sender; inner is Receiver::Inner.                            *)
(***************************************************************************)
\* ok: the assertions of fill_buf have held; nsub: the parity of the fills
\* submitted; shut_rd: SHUT_RD was issued; fill_failed: a fill has completed
\* with an error; unread: the bytes the fills have delivered and no read has
\* returned yet, oldest first.
Receiver_aux_new ==
    [ok |-> TRUE, nsub |-> 0, shut_rd |-> FALSE, fill_failed |-> FALSE,
     unread |-> <<>>]

\* A slip: the iovec covers the storage from tail to its end, whatever the
\* consumer still holds there.
fill_buf_to_end(st) ==
    LET handle == [id |-> st.aux.nsub,
                   iov |-> <<Range(st.inner.buf.tail, st.inner.buf.len), Range(0, 0)>>]
    IN  [st EXCEPT
           !.aux.ok = /\ @
                      /\ ~is_full(st.inner.buf)
                      /\ ~st.inner.end_of_file
                      /\ st.inner.pending_io = None,
           !.aux.nsub = 1 - @,
           !.inner.pending_io = Some(handle)]

\* fill_buf up to the submission: the three debug_asserts, the iovecs over
\* the producer view, io_uring.readv, and the handle stored in pending_io.
fill_buf(st) ==
    LET handle == [id |-> st.aux.nsub, iov |-> ProducerRanges(st.inner.buf)]
    IN  [st EXCEPT
           !.aux.ok = /\ @
                      /\ ~is_full(st.inner.buf)
                      /\ ~st.inner.end_of_file
                      /\ st.inner.pending_io = None,
           !.aux.nsub = 1 - @,
           !.inner.pending_io = Some(handle)]

\* Receiver::new(common, buf_size): Inner::new, then the first fill_buf.
Receiver_new(mem, buf_size) ==
    fill_buf([inner    |-> [buf |-> from_raw_parts(mem, buf_size),
                            pending_io |-> None,
                            end_of_file |-> FALSE],
              common   |-> Common_new,
              aux      |-> Receiver_aux_new,
              notified |-> {},
              ret      |-> 0])

\* A slip: the sticky error is returned ahead of end-of-file.
try_read_error_first(st, L) ==
    IF L = 0
    THEN [st EXCEPT !.ret = 0]
    ELSE LET r   == consume(st.inner.buf, L)
             st1 == [st EXCEPT !.inner.buf = r.buf]
             st2 == IF is_empty(r.buf)
                    THEN [st1 EXCEPT !.common = Pollee_remove(@, Events_IN)]
                    ELSE st1
         IN  IF r.n = 0 /\ Common_error(st2.common) # None
             THEN [st2 EXCEPT !.ret = Common_error(st2.common)[1]]
             ELSE IF st2.inner.end_of_file
             THEN [st2 EXCEPT !.ret = r.n]
             ELSE IF r.n = 0
             THEN [st2 EXCEPT !.ret = -EAGAIN]
             ELSE [(IF st2.inner.pending_io = None THEN fill_buf(st2) ELSE st2)
                      EXCEPT !.ret = r.n]

\* A slip: the zero-length check is missing.
try_read_no_zero_check(st, L) ==
    LET r   == consume(st.inner.buf, L)
        st1 == [st EXCEPT !.inner.buf = r.buf]
        st2 == IF is_empty(r.buf)
               THEN [st1 EXCEPT !.common = Pollee_remove(@, Events_IN)]
               ELSE st1
    IN  IF st2.inner.end_of_file
        THEN [st2 EXCEPT !.ret = r.n]
        ELSE IF r.n = 0
        THEN IF Common_error(st2.common) # None
             THEN [st2 EXCEPT !.ret = Common_error(st2.common)[1]]
             ELSE [st2 EXCEPT !.ret = -EAGAIN]
        ELSE [(IF st2.inner.pending_io = None THEN fill_buf(st2) ELSE st2)
                 EXCEPT !.ret = r.n]

\* A slip: a read that makes room does not submit a fill.
try_read_no_rearm(st, L) ==
    IF L = 0
    THEN [st EXCEPT !.ret = 0]
    ELSE LET r   == consume(st.inner.buf, L)
             st1 == [st EXCEPT !.inner.buf = r.buf]
             st2 == IF is_empty(r.buf)
                    THEN [st1 EXCEPT !.common = Pollee_remove(@, Events_IN)]
                    ELSE st1
         IN  IF st2.inner.end_of_file
             THEN [st2 EXCEPT !.ret = r.n]
             ELSE IF r.n = 0
             THEN IF Common_error(st2.common) # None
                  THEN [st2 EXCEPT !.ret = Common_error(st2.common)[1]]
                  ELSE [st2 EXCEPT !.ret = -EAGAIN]
             ELSE [st2 EXCEPT !.ret = r.n]

\* try_read(buf) for an output slice of length L.
try_read(st, L) ==
    IF L = 0
    THEN [st EXCEPT !.ret = 0]
    ELSE LET r   == consume(st.inner.buf, L)
             st1 == [st EXCEPT !.inner.buf = r.buf]
             st2 == IF is_empty(r.buf)
                    THEN [st1 EXCEPT !.common = Pollee_remove(@, Events_IN)]
                    ELSE st1
         IN  IF st2.inner.end_of_file
             THEN [st2 EXCEPT !.ret = r.n]
             ELSE IF r.n = 0
             THEN IF Common_error(st2.common) # None
                  THEN [st2 EXCEPT !.ret = Common_error(st2.common)[1]]
                  ELSE [st2 EXCEPT !.ret = -EAGAIN]
             ELSE [(IF st2.inner.pending_io = None THEN fill_buf(st2) ELSE st2)
                      EXCEPT !.ret = r.n]

\* The kernel stores data through the iovecs of the fill: part0, then part1.
KernelWrite(b, iov, data) ==
    LET p0 == RangeLen(iov[1])
    IN  [b EXCEPT !.mem =
            [i \in DOMAIN b.mem |->
                IF i >= iov[1].start /\ i < iov[1].start + Min(Len(data), p0)
                THEN data[i - iov[1].start + 1]
                ELSE IF i >= iov[2].start /\ i < iov[2].start + (Len(data) - p0)
                     THEN data[p0 + (i - iov[2].start) + 1]
                     ELSE b.mem[i]]]

\* A slip: a zero result is treated like a successful read of no bytes.
Receiver_complete_fn_eof_lost(st, retval) ==
    LET st1 == [st EXCEPT !.inner.pending_io = None]
    IN  IF retval < 0
        THEN add_event([st1 EXCEPT !.common = set_error(@, retval),
                                  !.aux.fill_failed = TRUE],
                       Events_ERR)
        ELSE LET st2 == [st1 EXCEPT
                           !.inner.buf = produce_without_copy(@, retval).buf]
                 st3 == IF ~is_full(st2.inner.buf) THEN fill_buf(st2) ELSE st2
             IN  add_event(st3, Events_IN)

\* A slip: the data branch chains the next fill and returns without raising
\* Events_IN.
Receiver_complete_fn_no_in(st, retval) ==
    LET st1 == [st EXCEPT !.inner.pending_io = None]
    IN  IF retval < 0
        THEN add_event([st1 EXCEPT !.common = set_error(@, retval),
                                  !.aux.fill_failed = TRUE],
                       Events_ERR)
        ELSE IF retval = 0
        THEN add_event([st1 EXCEPT !.inner.end_of_file = TRUE], Events_IN)
        ELSE LET st2 == [st1 EXCEPT
                           !.inner.buf = produce_without_copy(@, retval).buf]
             IN  IF ~is_full(st2.inner.buf) THEN fill_buf(st2) ELSE st2

\* complete_fn(retval), the callback of a fill.
Receiver_complete_fn(st, retval) ==
    LET st1 == [st EXCEPT !.inner.pending_io = None]
    IN  IF retval < 0
        THEN add_event([st1 EXCEPT !.common = set_error(@, retval),
                                  !.aux.fill_failed = TRUE],
                       Events_ERR)
        ELSE IF retval = 0
        THEN add_event([st1 EXCEPT !.inner.end_of_file = TRUE], Events_IN)
        ELSE LET st2 == [st1 EXCEPT
                           !.inner.buf = produce_without_copy(@, retval).buf]
                 st3 == IF ~is_full(st2.inner.buf) THEN fill_buf(st2) ELSE st2
             IN  add_event(st3, Events_IN)

\* A slip: shutdown also discards what the ring buffer holds.
Receiver_shutdown_fn_discard(st) ==
    [st EXCEPT !.aux.shut_rd = TRUE, !.inner.buf.head = st.inner.buf.tail]

\* Receiver::shutdown(): libc::shutdown(fd, SHUT_RD), nothing else.
Receiver_shutdown_fn(st) == [st EXCEPT !.aux.shut_rd = TRUE]

(***************************************************************************)
(* RawSlab (util/raw_slab.rs).  A slab is [buf_len, free_indexes]; a       *)
(* pointer into its buffer is modelled by the index of the slot.           *)
(***************************************************************************)
\* RawSlab::new: free_indexes = (0..buf_len).rev().
RawSlab_new(buf_len) ==
    [buf_len |-> buf_len, free_indexes |-> [i \in 1..buf_len |-> buf_len - i]]

\* A slip: the free index is read but not popped.
RawSlab_alloc_peek(rs) ==
    IF rs.free_indexes = <<>>
    THEN [slab |-> rs, ptr |-> None]
    ELSE [slab |-> rs, ptr |-> Some(rs.free_indexes[Len(rs.free_indexes)])]

\* alloc(): pop the last free index; [slab, ptr] with ptr = None when full.
RawSlab_alloc(rs) ==
    IF rs.free_indexes = <<>>
    THEN [slab |-> rs, ptr |-> None]
    ELSE [slab |-> [rs EXCEPT !.free_indexes = SubSeq(@, 1, Len(@) - 1)],
          ptr  |-> Some(rs.free_indexes[Len(rs.free_indexes)])]

\* dealloc(ptr): push the slot's index.
RawSlab_dealloc(rs, ptr) == [rs EXCEPT !.free_indexes = Append(@, ptr)]

RawSlab_capacity(rs) == rs.buf_len

\* A slip: the free slots are counted instead of the allocated ones.
RawSlab_allocated_free(rs) == Len(rs.free_indexes)

RawSlab_allocated(rs) == RawSlab_capacity(rs) - Len(rs.free_indexes)

(***************************************************************************)
(* slab::Slab as the Acceptor uses it: [entries, next, len, cap].  An      *)
(* entry is vacant (holding the next vacant key) or occupied by an Accept. *)
(***************************************************************************)
Vacant(next) == [tag |-> "Vacant", addr |-> 0, fd |-> 0, next |-> next]
\* Accept::Pending { addr, handle } and Accept::Completed { addr, fd }.
Pending(addr) == [tag |-> "Pending", addr |-> addr, fd |-> 0, next |-> 0]
Completed(addr, fd) == [tag |-> "Completed", addr |-> addr, fd |-> fd, next |-> 0]

Slab_with_capacity(cap) == [entries |-> <<>>, next |-> 0, len |-> 0, cap |-> cap]

\* Keys count from 0; entries is a sequence, so key k sits at position k + 1.
Slab_occupied(sl, key) ==
    key < Len(sl.entries) /\ sl.entries[key + 1].tag # "Vacant"

Slab_get(sl, key) == sl.entries[key + 1]

\* vacant_entry().insert(val): the key is sl.next.
Slab_insert(sl, val) ==
    IF sl.next = Len(sl.entries)
    THEN [sl EXCEPT !.entries = Append(@, val), !.next = sl.next + 1, !.len = @ + 1]
    ELSE [sl EXCEPT !.entries[sl.next + 1] = val,
                    !.next = sl.entries[sl.next + 1].next,
                    !.len = @ + 1]

Slab_set(sl, key, val) == [sl EXCEPT !.entries[key + 1] = val]

Slab_remove(sl, key) ==
    [sl EXCEPT !.entries[key + 1] = Vacant(sl.next), !.next = key, !.len = @ - 1]

(***************************************************************************)
(* Acceptor (io/acceptor.rs).  The handlers are operators on a record      *)
(*   [inner, common, aux, notified, ret]                                   *)
(* where inner is Acceptor::Inner: [accept_slab, addr_raw_slab,            *)
(* completed_indexes].  The submission of an accept (the backend call the  *)
(* source leaves commented out at lines 159-161) hands the backend the     *)
(* slot's address and a callback that captured the slot's index.           *)
(***************************************************************************)
MIN_BACKLOG == 1
MAX_BACKLOG == 16

\* Inner::new(backlog): the backlog is clamped, the three containers are empty.
Acceptor_Inner_new(backlog) ==
    LET n == Min(IF backlog >= MIN_BACKLOG THEN backlog ELSE MIN_BACKLOG, MAX_BACKLOG)
    IN  [accept_slab       |-> Slab_with_capacity(n),
         addr_raw_slab     |-> RawSlab_new(n),
         completed_indexes |-> <<>>]

\* in_flight: the accepts the backend holds, each with its callback's index.
\* completed, accepted: the descriptors delivered by successful completions
\* and those returned by accept(), in order.  failed: the completions that
\* failed since the pool was last filled up.
Acceptor_aux_new ==
    [ok |-> TRUE, in_flight |-> {}, completed |-> <<>>, accepted |-> <<>>,
     failed |-> 0]

\* initiate_async_accepts: fill the slab up to its capacity.
RECURSIVE initiate_async_accepts(_)
initiate_async_accepts(st) ==
    IF st.inner.accept_slab.len < st.inner.accept_slab.cap
    THEN LET a == RawSlab_alloc(st.inner.addr_raw_slab)
         IN  IF a.ptr = None
             THEN [st EXCEPT !.aux.ok = FALSE]
             ELSE LET key == st.inner.accept_slab.next
                  IN  initiate_async_accepts(
                        [st EXCEPT
                           !.inner.addr_raw_slab = a.slab,
                           !.inner.accept_slab = Slab_insert(@, Pending(a.ptr[1])),
                           !.aux.in_flight =
                               @ \cup {[index |-> key, addr |-> a.ptr[1]]}])
    ELSE [st EXCEPT !.aux.failed = 0]

\* Acceptor::new(backlog, common): Inner::new, then initiate_async_accepts.
Acceptor_new(backlog) ==
    initiate_async_accepts([inner    |-> Acceptor_Inner_new(backlog),
                            common   |-> Common_new,
                            aux      |-> Acceptor_aux_new,
                            notified |-> {},
                            ret      |-> 0])

\* A slip: the newest completed accept is taken instead of the oldest.
try_accept_pop_back(st) ==
    IF st.inner.completed_indexes = <<>>
    THEN IF Common_error(st.common) # None
         THEN [st EXCEPT !.ret = Common_error(st.common)[1]]
         ELSE [st EXCEPT !.ret = -EAGAIN]
    ELSE LET q   == st.inner.completed_indexes
             completed_index == q[Len(q)]
             st1 == [st EXCEPT !.inner.completed_indexes = SubSeq(q, 1, Len(q) - 1)]
             st2 == IF st1.inner.completed_indexes = <<>>
                    THEN [st1 EXCEPT !.common = Pollee_remove(@, Events_IN)]
                    ELSE st1
         IN  IF ~Slab_occupied(st2.inner.accept_slab, completed_index)
                \/ Slab_get(st2.inner.accept_slab, completed_index).tag # "Completed"
             THEN [st2 EXCEPT !.aux.ok = FALSE, !.ret = -EAGAIN]
             ELSE LET completed == Slab_get(st2.inner.accept_slab, completed_index)
                      st3 == [st2 EXCEPT
                                !.inner.addr_raw_slab = RawSlab_dealloc(@, completed.addr),
                                !.inner.accept_slab = Slab_remove(@, completed_index),
                                !.aux.accepted = Append(@, completed.fd)]
                  IN  [initiate_async_accepts(st3) EXCEPT !.ret = completed.fd]

\* A slip: with nothing completed the caller is told to wait, whatever the
\* sticky error.
try_accept_ignore_error(st) ==
    IF st.inner.completed_indexes = <<>>
    THEN [st EXCEPT !.ret = -EAGAIN]
    ELSE LET completed_index == Head(st.inner.completed_indexes)
             st1 == [st EXCEPT !.inner.completed_indexes = Tail(@)]
             st2 == IF st1.inner.completed_indexes = <<>>
                    THEN [st1 EXCEPT !.common = Pollee_remove(@, Events_IN)]
                    ELSE st1
             completed == Slab_get(st2.inner.accept_slab, completed_index)
             st3 == [st2 EXCEPT
                       !.inner.addr_raw_slab = RawSlab_dealloc(@, completed.addr),
                       !.inner.accept_slab = Slab_remove(@, completed_index),
                       !.aux.accepted = Append(@, completed.fd)]
         IN  [initiate_async_accepts(st3) EXCEPT !.ret = completed.fd]

\* A slip: the freed slot is not submitted again.
try_accept_no_refill(st) ==
    IF st.inner.completed_indexes = <<>>
    THEN IF Common_error(st.common) # None
         THEN [st EXCEPT !.ret = Common_error(st.common)[1]]
         ELSE [st EXCEPT !.ret = -EAGAIN]
    ELSE LET completed_index == Head(st.inner.completed_indexes)
             st1 == [st EXCEPT !.inner.completed_indexes = Tail(@)]
             st2 == IF st1.inner.completed_indexes = <<>>
                    THEN [st1 EXCEPT !.common = Pollee_remove(@, Events_IN)]
                    ELSE st1
         IN  IF ~Slab_occupied(st2.inner.accept_slab, completed_index)
                \/ Slab_get(st2.inner.accept_slab, completed_index).tag # "Completed"
             THEN [st2 EXCEPT !.aux.ok = FALSE, !.ret = -EAGAIN]
             ELSE LET completed == Slab_get(st2.inner.accept_slab, completed_index)
                      st3 == [st2 EXCEPT
                                !.inner.addr_raw_slab = RawSlab_dealloc(@, completed.addr),
                                !.inner.accept_slab = Slab_remove(@, completed_index),
                                !.aux.accepted = Append(@, completed.fd)]
                  IN  [st3 EXCEPT !.ret = completed.fd]

\* A slip: the sticky error is returned ahead of the queued connections.
try_accept_error_first(st) ==
    IF Common_error(st.common) # None
    THEN [st EXCEPT !.ret = Common_error(st.common)[1]]
    ELSE
         IF st.inner.completed_indexes = <<>>
         THEN IF Common_error(st.common) # None
              THEN [st EXCEPT !.ret = Common_error(st.common)[1]]
              ELSE [st EXCEPT !.ret = -EAGAIN]
         ELSE LET completed_index == Head(st.inner.completed_indexes)
                  st1 == [st EXCEPT !.inner.completed_indexes = Tail(@)]
                  st2 == IF st1.inner.completed_indexes = <<>>
                         THEN [st1 EXCEPT !.common = Pollee_remove(@, Events_IN)]
                         ELSE st1
              IN  IF ~Slab_occupied(st2.inner.accept_slab, completed_index)
                     \/ Slab_get(st2.inner.accept_slab, completed_index).tag # "Completed"
                  THEN [st2 EXCEPT !.aux.ok = FALSE, !.ret = -EAGAIN]
                  ELSE LET completed == Slab_get(st2.inner.accept_slab, completed_index)
                           st3 == [st2 EXCEPT
                                     !.inner.addr_raw_slab = RawSlab_dealloc(@, completed.addr),
                                     !.inner.accept_slab = Slab_remove(@, completed_index),
                                     !.aux.accepted = Append(@, completed.fd)]
                       IN  [initiate_async_accepts(st3) EXCEPT !.ret = completed.fd]

\* A slip: IN stays set when the last queued connection is taken.
try_accept_keep_in(st) ==
    IF st.inner.completed_indexes = <<>>
    THEN IF Common_error(st.common) # None
         THEN [st EXCEPT !.ret = Common_error(st.common)[1]]
         ELSE [st EXCEPT !.ret = -EAGAIN]
    ELSE LET completed_index == Head(st.inner.completed_indexes)
             st1 == [st EXCEPT !.inner.completed_indexes = Tail(@)]
             st2 == IF st1.inner.completed_indexes = <<>>
                    THEN st1
                    ELSE st1
         IN  IF ~Slab_occupied(st2.inner.accept_slab, completed_index)
                \/ Slab_get(st2.inner.accept_slab, completed_index).tag # "Completed"
             THEN [st2 EXCEPT !.aux.ok = FALSE, !.ret = -EAGAIN]
             ELSE LET completed == Slab_get(st2.inner.accept_slab, completed_index)
                      st3 == [st2 EXCEPT
                                !.inner.addr_raw_slab = RawSlab_dealloc(@, completed.addr),
                                !.inner.accept_slab = Slab_remove(@, completed_index),
                                !.aux.accepted = Append(@, completed.fd)]
                  IN  [initiate_async_accepts(st3) EXCEPT !.ret = completed.fd]

\* try_accept(output_addr).  A panic (the unwrap, the unreachable!) is
\* recorded in aux.ok.
try_accept(st) ==
    IF st.inner.completed_indexes = <<>>
    THEN IF Common_error(st.common) # None
         THEN [st EXCEPT !.ret = Common_error(st.common)[1]]
         ELSE [st EXCEPT !.ret = -EAGAIN]
    ELSE LET completed_index == Head(st.inner.completed_indexes)
             st1 == [st EXCEPT !.inner.completed_indexes = Tail(@)]
             st2 == IF st1.inner.completed_indexes = <<>>
                    THEN [st1 EXCEPT !.common = Pollee_remove(@, Events_IN)]
                    ELSE st1
         IN  IF ~Slab_occupied(st2.inner.accept_slab, completed_index)
                \/ Slab_get(st2.inner.accept_slab, completed_index).tag # "Completed"
             THEN [st2 EXCEPT !.aux.ok = FALSE, !.ret = -EAGAIN]
             ELSE LET completed == Slab_get(st2.inner.accept_slab, completed_index)
                      st3 == [st2 EXCEPT
                                !.inner.addr_raw_slab = RawSlab_dealloc(@, completed.addr),
                                !.inner.accept_slab = Slab_remove(@, completed_index),
                                !.aux.accepted = Append(@, completed.fd)]
                  IN  [initiate_async_accepts(st3) EXCEPT !.ret = completed.fd]

\* A slip: a failed slot is left in the slab.
Acceptor_callback_keep_failed(st, accept_slab_index, retval) ==
    IF ~Slab_occupied(st.inner.accept_slab, accept_slab_index)
    THEN [st EXCEPT !.aux.ok = FALSE]
    ELSE LET pending_accept == Slab_get(st.inner.accept_slab, accept_slab_index)
         IN  IF retval < 0
             THEN add_event([st EXCEPT !.common = set_error(@, retval),
                                       !.aux.failed = @ + 1],
                            Events_ERR)
             ELSE IF pending_accept.tag = "Completed"
             THEN [st EXCEPT !.aux.ok = FALSE]
             ELSE add_event(
                    [st EXCEPT
                       !.inner.accept_slab =
                           Slab_set(@, accept_slab_index,
                                    Completed(pending_accept.addr, retval)),
                       !.inner.completed_indexes = Append(@, accept_slab_index),
                       !.aux.completed = Append(@, retval)],
                    Events_IN)

\* A slip: a failed completion marks the socket ready to accept.
Acceptor_callback_fail_in(st, accept_slab_index, retval) ==
    IF ~Slab_occupied(st.inner.accept_slab, accept_slab_index)
    THEN [st EXCEPT !.aux.ok = FALSE]
    ELSE LET pending_accept == Slab_get(st.inner.accept_slab, accept_slab_index)
         IN  IF retval < 0
             THEN add_event(
                    [st EXCEPT
                       !.common = Pollee_add(set_error(@, retval), Events_IN),
                       !.inner.addr_raw_slab = RawSlab_dealloc(@, pending_accept.addr),
                       !.inner.accept_slab = Slab_remove(@, accept_slab_index),
                       !.aux.failed = @ + 1],
                    Events_ERR)
             ELSE IF pending_accept.tag = "Completed"
             THEN [st EXCEPT !.aux.ok = FALSE]
             ELSE add_event(
                    [st EXCEPT
                       !.inner.accept_slab =
                           Slab_set(@, accept_slab_index,
                                    Completed(pending_accept.addr, retval)),
                       !.inner.completed_indexes = Append(@, accept_slab_index),
                       !.aux.completed = Append(@, retval)],
                    Events_IN)

\* A slip: a completed accept is submitted again at once, on the same slot.
Acceptor_callback_rearm(st, accept_slab_index, retval) ==
    IF ~Slab_occupied(st.inner.accept_slab, accept_slab_index)
    THEN [st EXCEPT !.aux.ok = FALSE]
    ELSE LET pending_accept == Slab_get(st.inner.accept_slab, accept_slab_index)
         IN  IF retval < 0
             THEN add_event(
                    [st EXCEPT
                       !.common = set_error(@, retval),
                       !.inner.addr_raw_slab = RawSlab_dealloc(@, pending_accept.addr),
                       !.inner.accept_slab = Slab_remove(@, accept_slab_index),
                       !.aux.failed = @ + 1],
                    Events_ERR)
             ELSE IF pending_accept.tag = "Completed"
             THEN [st EXCEPT !.aux.ok = FALSE]
             ELSE add_event(
                    [st EXCEPT
                       !.inner.accept_slab =
                           Slab_set(@, accept_slab_index,
                                    Completed(pending_accept.addr, retval)),
                       !.inner.completed_indexes = Append(@, accept_slab_index),
                       !.aux.completed = Append(@, retval),
                       !.aux.in_flight =
                           @ \cup {[index |-> accept_slab_index,
                                    addr  |-> pending_accept.addr]}],
                    Events_IN)

\* A slip: a completed slot is queued twice.
Acceptor_callback_push_twice(st, accept_slab_index, retval) ==
    IF ~Slab_occupied(st.inner.accept_slab, accept_slab_index)
    THEN [st EXCEPT !.aux.ok = FALSE]
    ELSE LET pending_accept == Slab_get(st.inner.accept_slab, accept_slab_index)
         IN  IF retval < 0
             THEN add_event(
                    [st EXCEPT
                       !.common = set_error(@, retval),
                       !.inner.addr_raw_slab = RawSlab_dealloc(@, pending_accept.addr),
                       !.inner.accept_slab = Slab_remove(@, accept_slab_index),
                       !.aux.failed = @ + 1],
                    Events_ERR)
             ELSE IF pending_accept.tag = "Completed"
             THEN [st EXCEPT !.aux.ok = FALSE]
             ELSE add_event(
                    [st EXCEPT
                       !.inner.accept_slab =
                           Slab_set(@, accept_slab_index,
                                    Completed(pending_accept.addr, retval)),
                       !.inner.completed_indexes =
                           Append(Append(@, accept_slab_index), accept_slab_index),
                       !.aux.completed = Append(@, retval)],
                    Events_IN)

\* A slip: the failure branch removes the slot and keeps its address.
Acceptor_callback_leak_addr(st, accept_slab_index, retval) ==
    IF ~Slab_occupied(st.inner.accept_slab, accept_slab_index)
    THEN [st EXCEPT !.aux.ok = FALSE]
    ELSE LET pending_accept == Slab_get(st.inner.accept_slab, accept_slab_index)
         IN  IF retval < 0
             THEN add_event(
                    [st EXCEPT
                       !.common = set_error(@, retval),
                       !.inner.accept_slab = Slab_remove(@, accept_slab_index),
                       !.aux.failed = @ + 1],
                    Events_ERR)
             ELSE IF pending_accept.tag = "Completed"
             THEN [st EXCEPT !.aux.ok = FALSE]
             ELSE add_event(
                    [st EXCEPT
                       !.inner.accept_slab =
                           Slab_set(@, accept_slab_index,
                                    Completed(pending_accept.addr, retval)),
                       !.inner.completed_indexes = Append(@, accept_slab_index),
                       !.aux.completed = Append(@, retval)],
                    Events_IN)

\* The completion callback of the accept submitted for accept_slab_index.
Acceptor_callback(st, accept_slab_index, retval) ==
    IF ~Slab_occupied(st.inner.accept_slab, accept_slab_index)
    THEN [st EXCEPT !.aux.ok = FALSE]
    ELSE LET pending_accept == Slab_get(st.inner.accept_slab, accept_slab_index)
         IN  IF retval < 0
             THEN add_event(
                    [st EXCEPT
                       !.common = set_error(@, retval),
                       !.inner.addr_raw_slab = RawSlab_dealloc(@, pending_accept.addr),
                       !.inner.accept_slab = Slab_remove(@, accept_slab_index),
                       !.aux.failed = @ + 1],
                    Events_ERR)
             ELSE IF pending_accept.tag = "Completed"
             THEN [st EXCEPT !.aux.ok = FALSE]
             ELSE add_event(
                    [st EXCEPT
                       !.inner.accept_slab =
                           Slab_set(@, accept_slab_index,
                                    Completed(pending_accept.addr, retval)),
                       !.inner.completed_indexes = Append(@, accept_slab_index),
                       !.aux.completed = Append(@, retval)],
                    Events_IN)

\* Inner::drop: every completed accept still queued gives its address back
\* and leaves the slab (its descriptor is closed); then the two
\* debug_asserts on the emptied slabs.
RECURSIVE Acceptor_Inner_drop(_)
Acceptor_Inner_drop(st) ==
    IF st.inner.completed_indexes # <<>>
    THEN LET completed_index == Head(st.inner.completed_indexes)
             st1 == [st EXCEPT !.inner.completed_indexes = Tail(@)]
         IN  IF ~Slab_occupied(st1.inner.accept_slab, completed_index)
                \/ Slab_get(st1.inner.accept_slab, completed_index).tag # "Completed"
             THEN [st1 EXCEPT !.aux.ok = FALSE]
             ELSE LET completed_accept == Slab_get(st1.inner.accept_slab, completed_index)
                  IN  Acceptor_Inner_drop(
                        [st1 EXCEPT
                           !.inner.addr_raw_slab =
                               RawSlab_dealloc(@, completed_accept.addr),
                           !.inner.accept_slab = Slab_remove(@, completed_index)])
    ELSE [st EXCEPT
            !.aux.ok = /\ @
                       /\ st.inner.accept_slab.len = 0
                       /\ RawSlab_allocated(st.inner.addr_raw_slab) = 0]

(***************************************************************************)
(* Connector (io/connector.rs).  The handlers are operators on a record    *)
(*   [inner, pollee, aux, notified, ret, panic]                            *)
(* of Connector::Inner, the private Pollee, the record of outside effects, *)
(* the readiness bits passed to Pollee::add, the handler's result and      *)
(* whether the handler panicked.                                           *)
(*                                                                         *)
(* inner.addr is the address of a local of Inner::new that was moved into  *)
(* the struct afterwards: it dangles, and never points at addr_alloc.  The *)
(* store through it in connect leaves addr_alloc as it was; what the       *)
(* backend later reads through it is the caller's address or anything      *)
(* else, and the action that submits chooses which.                        *)
(*                                                                         *)
(* aux is                                                                  *)
(*   debug     whether debug assertions are compiled in                    *)
(*   poisoned  whether a thread panicked holding the mutex of Inner: every *)
(*             later lock().unwrap() panics                                *)
(*   ops       the connect operations submitted, in order, each            *)
(*             [addr, retval]: the address the backend reads and the       *)
(*             result delivered, None until the completion fires.  A       *)
(*             Handle is an index into ops.                                *)
(***************************************************************************)
Connector_Inner_new ==
    [pending_io |-> None, is_shutdown |-> FALSE, addr_alloc |-> 0]

Connector_aux_new(debug) ==
    [debug |-> debug, poisoned |-> FALSE, ops |-> <<>>]

\* Handle::retval.
Handle_retval(st, handle) == st.aux.ops[handle].retval

\* A panic while the MutexGuard is alive poisons the mutex.
panic_locked(st) == [st EXCEPT !.panic = TRUE, !.aux.poisoned = TRUE]

\* lock().unwrap() on a poisoned mutex panics before the guard exists.
panic_unlocked(st) == [st EXCEPT !.panic = TRUE]

\* initiate_async_connect: submits the connect and returns its handle.
initiate_async_connect(st, kaddr) ==
    [st EXCEPT !.aux.ops = Append(@, [addr |-> kaddr, retval |-> None]),
               !.ret = Some(Len(st.aux.ops) + 1)]

\* connect, up to the end of its first block.  ret is Some(-EPIPE) when the
\* call returns there and None when it goes on to wait.
connect_initiate(st, kaddr) ==
    IF st.aux.poisoned
    THEN panic_unlocked(st)
    ELSE IF st.inner.is_shutdown
    THEN [st EXCEPT !.ret = Some(-EPIPE)]
    ELSE IF st.aux.debug /\ st.inner.pending_io = None
    THEN panic_locked(st)
    ELSE LET st1 == initiate_async_connect(st, kaddr)
         IN  [st1 EXCEPT !.inner.pending_io = st1.ret, !.ret = None]

\* connect, its last block: the result is read from the pending handle.
connect_finish(st) ==
    IF st.aux.poisoned
    THEN panic_unlocked(st)
    ELSE IF st.inner.pending_io = None
    THEN panic_locked(st)
    ELSE LET retval == Handle_retval(st, st.inner.pending_io[1])
         IN  IF retval = None
             THEN panic_locked(st)
             ELSE [st EXCEPT !.ret = retval]

\* The callback of initiate_async_connect.  It takes no lock.
Connector_callback(st, handle, retval) ==
    LET st1 == [st EXCEPT !.aux.ops[handle].retval = Some(retval)]
        ev  == IF retval = 0 THEN Events_IN ELSE Events_ERR
    IN  [st1 EXCEPT !.pollee = @ \cup {ev}, !.notified = @ \cup {ev}]

\* Connector::shutdown.
Connector_shutdown_fn(st) ==
    IF st.aux.poisoned
    THEN panic_unlocked(st)
    ELSE [st EXCEPT !.inner.is_shutdown = TRUE,
                    !.pollee = @ \cup {Events_HUP},
                    !.notified = @ \cup {Events_HUP}]

(***************************************************************************)
(* State.                                                                  *)
(***************************************************************************)
VARIABLES
    cbuf,       \* a standalone CircularBuf
    cb_in,      \* history: the bytes that buffer accepted, in order
    cb_out,     \* history: the bytes that buffer returned, in order
    common,     \* the socket's Common: [error, pollee]
    s_inner,    \* Sender::Inner: [buf, pending_io, is_shutdown]
    s_aux,      \* what the sender did to the outside world:
                \*   shut_wr: one entry per shutdown(fd, SHUT_WR) issued, holding
                \*            the state of the sender at that moment
                \*   ok:      no debug_assert of flush_buf has failed
                \*   nsub:    flushes submitted so far, modulo 2 (tells handles apart)
    writer,     \* the task calling Sender::write: [pc, buf, ret, waited]; buf
                \* and ret are the argument and the result of its latest
                \* call, waited tells that the call suspended in Poller::wait
    r_inner,    \* Receiver::Inner: [buf, pending_io, end_of_file]
    r_aux,      \* what the receiver did to the outside world:
                \*   ok:      no debug_assert of fill_buf has failed
                \*   nsub:    fills submitted so far, modulo 2 (tells handles apart)
                \*   shut_rd: shutdown(fd, SHUT_RD) was issued
                \*   fill_failed, unread (see Receiver_aux_new)
    reader,     \* the task calling Receiver::read: [pc, len, ret, waited]; len
                \* and ret are the slice length and the result of its latest
                \* call, waited tells that the call suspended in Poller::wait
    a_inner,    \* Acceptor::Inner: [accept_slab, addr_raw_slab, completed_indexes]
    a_aux,      \* the backend's and the callers' side of the acceptor:
                \*   ok, in_flight, completed, accepted, failed (see
                \*   Acceptor_aux_new)
    acceptor,   \* the task calling Acceptor::accept: [pc, ret]
    c_inner,    \* Connector::Inner: [pending_io, is_shutdown, addr_alloc]
    c_pollee,   \* Connector::private_pollee: the readiness bits set
    c_aux,      \* the connector's build, mutex and backend side
                \*   (see Connector_aux_new)
    connecting, \* the tasks calling Connector::connect, each
                \*   [pc, addr, op, ret, hup]: op is the handle the call got
                \*   from its submission, hup whether shutdown woke the call
    rslab,      \* a standalone RawSlab: [buf_len, free_indexes]
    rs_live,    \* history: the pointers alloc returned and dealloc has not
                \*   taken back
    rs_ret,     \* the result of the latest alloc, None before the first
    driven      \* the component this run exercises; its siblings act on it
                \* through the shared Common only

bufVars    == <<cbuf, cb_in, cb_out>>
senderVars == <<s_inner, s_aux, writer>>
receiverVars == <<r_inner, r_aux, reader>>
acceptorVars == <<a_inner, a_aux, acceptor>>
connectorVars == <<c_inner, c_pollee, c_aux, connecting>>
slabVars == <<rslab, rs_live, rs_ret>>

\* What the actions of one component leave alone.
notBufVars      == <<common, senderVars, receiverVars, acceptorVars, connectorVars, slabVars, driven>>
notSenderVars   == <<bufVars, receiverVars, acceptorVars, connectorVars, slabVars, driven>>
notReceiverVars == <<bufVars, senderVars, acceptorVars, connectorVars, slabVars, driven>>
notAcceptorVars == <<bufVars, senderVars, receiverVars, connectorVars, slabVars, driven>>

notConnectorVars == <<bufVars, common, senderVars, receiverVars, acceptorVars,
                      slabVars, driven>>
notSlabVars      == <<bufVars, common, senderVars, receiverVars, acceptorVars,
                      connectorVars, driven>>

\* What a handler of one component leaves alone, the tasks apart.
notSenderState   == <<bufVars, r_inner, r_aux, a_inner, a_aux, connectorVars, slabVars, driven>>
notReceiverState == <<bufVars, s_inner, s_aux, a_inner, a_aux, connectorVars, slabVars, driven>>
notAcceptorState == <<bufVars, s_inner, s_aux, r_inner, r_aux, connectorVars, slabVars, driven>>

\* The components share one Pollee: a readiness update by any of them
\* reaches the suspended tasks of all of them.
Wake(notified) ==
    /\ writer' = Woken(writer, notified)
    /\ reader' = Woken(reader, notified)
    /\ acceptor' = Woken(acceptor, notified)

\* A component the run does not exercise stays as constructed.
IdleBuf ==
    /\ cbuf = from_raw_parts([i \in 0..0 |-> 0], 1)
    /\ cb_in = <<>>
    /\ cb_out = <<>>

IdleSender ==
    /\ s_inner = Sender_Inner_new([i \in 0..0 |-> 0], 1)
    /\ s_aux = Sender_aux_new
    /\ writer = [pc |-> "idle", buf |-> <<>>, ret |-> None, waited |-> FALSE]

IdleReceiver ==
    /\ r_inner = [buf |-> from_raw_parts([i \in 0..0 |-> 0], 1),
                  pending_io |-> None, end_of_file |-> FALSE]
    /\ r_aux = Receiver_aux_new
    /\ reader = [pc |-> "idle", len |-> 0, ret |-> None, waited |-> FALSE]

IdleAcceptor ==
    /\ a_inner = Acceptor_Inner_new(1)
    /\ a_aux = Acceptor_aux_new
    /\ acceptor = [pc |-> "idle", ret |-> None]

IdleConnector ==
    /\ c_inner = Connector_Inner_new
    /\ c_pollee = {}
    /\ c_aux = Connector_aux_new(FALSE)
    /\ connecting = <<>>

IdleSlab ==
    /\ rslab = RawSlab_new(1)
    /\ rs_live = {}
    /\ rs_ret = None

vars == <<cbuf, cb_in, cb_out, common, s_inner, s_aux, writer,
          r_inner, r_aux, reader, a_inner, a_aux, acceptor,
          c_inner, c_pollee, c_aux, connecting, rslab, rs_live, rs_ret, driven>>

(***************************************************************************)
(* A standalone CircularBuf driven by its four mutating methods.           *)
(***************************************************************************)
InitBufVars ==
    /\ \E len \in 1..MaxBufLen :
         \E mem \in [0..(len - 1) -> Bytes] : cbuf = from_raw_parts(mem, len)
    /\ cb_in = <<>>
    /\ cb_out = <<>>

Buf_produce ==
    /\ driven = "buf"
    /\ \E data \in Slices(MaxChunk) :
           LET r == produce(cbuf, data)
           IN  /\ Len(cb_in) + r.n <= MaxStream
               /\ cbuf' = r.buf
               /\ cb_in' = cb_in \o SubSeq(data, 1, r.n)
               /\ UNCHANGED <<cb_out, notBufVars>>

Buf_consume ==
    /\ driven = "buf"
    /\ \E L \in 0..MaxChunk :
           LET r == consume(cbuf, L)
           IN  /\ cbuf' = r.buf
               /\ cb_out' = cb_out \o r.data
               /\ UNCHANGED <<cb_in, notBufVars>>

\* The committed bytes are whatever the storage holds in the producer view.
Buf_produce_without_copy ==
    /\ driven = "buf"
    /\ \E len \in 0..MaxChunk :
           LET r == produce_without_copy(cbuf, len)
           IN  /\ Len(cb_in) + r.n <= MaxStream
               /\ cbuf' = r.buf
               /\ cb_in' = cb_in \o Uncommitted(cbuf, r.n)
               /\ UNCHANGED <<cb_out, notBufVars>>

\* The dropped bytes leave the buffer as if they had been returned.
Buf_consume_without_copy ==
    /\ driven = "buf"
    /\ \E len \in 0..MaxChunk :
           LET r == consume_without_copy(cbuf, len)
           IN  /\ cbuf' = r.buf
               /\ cb_out' = cb_out \o SubSeq(Contents(cbuf), 1, r.n)
               /\ UNCHANGED <<cb_in, notBufVars>>

NextBuf ==
    \/ Buf_produce
    \/ Buf_consume
    \/ Buf_produce_without_copy
    \/ Buf_consume_without_copy


(***************************************************************************)
(* The Sender of one socket: a task calling write, a caller of shutdown,   *)
(* the backend completing the flush in flight, and a sibling component of  *)
(* the same socket latching an error in the shared Common.                 *)
(***************************************************************************)
InitSenderVars ==
    /\ \E len \in 1..MaxBufLen :
         \E mem \in [0..(len - 1) -> {0}] : s_inner = Sender_Inner_new(mem, len)
    /\ s_aux = Sender_aux_new
    /\ writer = [pc |-> "idle", buf |-> <<>>, ret |-> None, waited |-> FALSE]

SenderSt ==
    [inner |-> s_inner, common |-> common, aux |-> s_aux,
     notified |-> {}, ret |-> 0]

\* The part of a handler's result that is the sender's and the socket's state.
SenderCommit(st) ==
    /\ s_inner' = st.inner
    /\ common' = st.common
    /\ s_aux' = st.aux
    /\ UNCHANGED notSenderState

\* The slices handed to write: one of each length 0..MaxChunk, its bytes
\* alternating so that a misplaced byte shows.
WriteInputs == {[i \in 1..k |-> i % 2] : k \in 0..MaxChunk}

\* write(buf) is called.
Sender_write_call ==
    /\ driven = "sender"
    /\ \E data \in WriteInputs :
           /\ writer.pc = "idle"
           /\ writer' = [pc |-> "try", buf |-> data, ret |-> None, waited |-> FALSE]
           /\ UNCHANGED <<common, s_inner, s_aux, notSenderVars>>

\* One turn of the loop of write: try_write, then return or go polling.
Sender_write_try ==
    /\ driven = "sender"
    /\ writer.pc = "try"
    /\ LET st == try_write(SenderSt, writer.buf)
       IN  /\ SenderCommit(st)
           /\ writer' = IF st.ret # -EAGAIN
                         THEN [writer EXCEPT !.pc = "idle", !.ret = Some(st.ret)]
                         ELSE [writer EXCEPT !.pc = "poll"]
    /\ UNCHANGED <<reader, acceptor>>

\* poll_by(Events_OUT, poller): retry at once if Events_OUT or an always-polled
\* bit is set, else wait.
Sender_write_poll ==
    /\ driven = "sender"
    /\ writer.pc = "poll"
    /\ writer' = [writer EXCEPT
                    !.pc = IF poll_by(common, {Events_OUT}) = {} THEN "wait" ELSE "try",
                    !.waited = @ \/ poll_by(common, {Events_OUT}) = {}]
    /\ UNCHANGED <<common, s_inner, s_aux, notSenderVars>>

\* The backend completes the flush in flight: a byte count within the
\* submitted iovecs, or a negative error.
Sender_complete_with(retval) ==
    /\ driven = "sender"
    /\ s_inner.pending_io # None
    /\ LET st == Sender_complete_fn(SenderSt, retval)
       IN  /\ SenderCommit(st)
           /\ Wake(st.notified)

Sender_complete ==
    /\ driven = "sender"
    /\ s_inner.pending_io # None
    /\ \E retval \in KernelErrors \cup 0..(s_inner.pending_io[1].iov_len) :
         Sender_complete_with(retval)

MaxShutWr == 2

Sender_shutdown ==
    /\ driven = "sender"
    /\ Len(s_aux.shut_wr) < MaxShutWr
    /\ LET st == Sender_shutdown_fn(SenderSt)
       IN  /\ SenderCommit(st)
           /\ Wake(st.notified)

\* A sibling component's completion fails: set_error(retval), add(Events_ERR).
Sibling_fail_fn(st, retval) == add_event([st EXCEPT !.common = set_error(@, retval)], Events_ERR)

Sender_sibling_fail ==
    /\ driven = "sender"
    /\ \E retval \in KernelErrors :
           LET st == Sibling_fail_fn(SenderSt, retval)
           IN  /\ SenderCommit(st)
               /\ Wake(st.notified)

NextSender ==
    \/ Sender_write_call
    \/ Sender_write_try
    \/ Sender_write_poll
    \/ Sender_complete
    \/ Sender_shutdown
    \/ Sender_sibling_fail

InitSender ==
    /\ driven = "sender"
    /\ InitSenderVars
    /\ common = Common_new
    /\ IdleBuf
    /\ IdleReceiver
    /\ IdleAcceptor
    /\ IdleConnector
    /\ IdleSlab

SpecSender == InitSender /\ [][NextSender]_vars

\* A completion that moves the consumer cursor: the kernel wrote at least one
\* byte, or failed.
Sender_complete_progress == Sender_complete /\ s_inner'.buf # s_inner.buf

\* The backend completes every flush, and a writev over a non-empty iovec
\* does not write nothing forever.
FairSender == WF_vars(Sender_complete_progress)

SpecSenderFair == SpecSender /\ FairSender

(***************************************************************************)
(* The Receiver of one socket: a task calling read, a caller of shutdown,  *)
(* the backend completing the fill in flight, and a sibling component of   *)
(* the same socket latching an error in the shared Common.                 *)
(***************************************************************************)
ReceiverSt ==
    [inner |-> r_inner, common |-> common, aux |-> r_aux,
     notified |-> {}, ret |-> 0]

ReceiverCommit(st) ==
    /\ r_inner' = st.inner
    /\ common' = st.common
    /\ r_aux' = st.aux
    /\ UNCHANGED notReceiverState

InitReceiver ==
    /\ driven = "receiver"
    /\ \E len \in 1..MaxBufLen :
         LET st == Receiver_new([i \in 0..(len - 1) |-> 0], len)
         IN  /\ r_inner = st.inner
             /\ common = st.common
             /\ r_aux = st.aux
    /\ reader = [pc |-> "idle", len |-> 0, ret |-> None, waited |-> FALSE]
    /\ IdleBuf
    /\ IdleSender
    /\ IdleAcceptor
    /\ IdleConnector
    /\ IdleSlab

\* read(buf) is called with an output slice of length L.
Receiver_read_call ==
    /\ driven = "receiver"
    /\ \E L \in 0..MaxChunk :
           /\ reader.pc = "idle"
           /\ reader' = [pc |-> "try", len |-> L, ret |-> None, waited |-> FALSE]
           /\ UNCHANGED <<common, r_inner, r_aux, notReceiverVars>>

\* The caller has received the first st.ret of the unread bytes.
Read_returns(st) ==
    IF st.ret > 0
    THEN [st EXCEPT !.aux.unread = SubSeq(@, st.ret + 1, Len(@))]
    ELSE st

\* One turn of the loop of read: try_read, then return or go polling.
Receiver_read_try ==
    /\ driven = "receiver"
    /\ reader.pc = "try"
    /\ LET st == Read_returns(try_read(ReceiverSt, reader.len))
       IN  /\ ReceiverCommit(st)
           /\ reader' = IF st.ret # -EAGAIN
                         THEN [reader EXCEPT !.pc = "idle", !.ret = Some(st.ret)]
                         ELSE [reader EXCEPT !.pc = "poll"]
    /\ UNCHANGED <<writer, acceptor>>

\* poll_by(IN, poller): retry at once if IN or an always-polled bit is set,
\* else wait.
Receiver_read_poll ==
    /\ driven = "receiver"
    /\ reader.pc = "poll"
    /\ reader' = [reader EXCEPT
                    !.pc = IF poll_by(common, {Events_IN}) = {} THEN "wait" ELSE "try",
                    !.waited = @ \/ poll_by(common, {Events_IN}) = {}]
    /\ UNCHANGED <<common, r_inner, r_aux, notReceiverVars>>

\* The total length of the iovecs of the fill in flight.
FillLen == RangeLen(r_inner.pending_io[1].iov[1]) + RangeLen(r_inner.pending_io[1].iov[2])

\* The bytes the kernel delivers: a slice of each length, its bytes alternating.
FillInputs(n) == {[i \in 1..k |-> i % 2] : k \in 1..n}

\* The backend completes the fill in flight with an error or with end-of-file.
Receiver_complete_end ==
    /\ driven = "receiver"
    /\ r_inner.pending_io # None
    /\ \E retval \in KernelErrors \cup {0} :
         LET st == Receiver_complete_fn(ReceiverSt, retval)
         IN  /\ ReceiverCommit(st)
             /\ Wake(st.notified)

\* The backend completes the fill in flight with data: the kernel has stored
\* the bytes through the submitted iovecs, and the result is their number.
Receiver_complete_data ==
    /\ driven = "receiver"
    /\ r_inner.pending_io # None
    /\ \E data \in FillInputs(FillLen) :
         LET h   == r_inner.pending_io[1]
             st0 == [ReceiverSt EXCEPT !.inner.buf = KernelWrite(@, h.iov, data),
                                       !.aux.unread = @ \o data]
             st  == Receiver_complete_fn(st0, Len(data))
         IN  /\ ReceiverCommit(st)
             /\ Wake(st.notified)

Receiver_shutdown ==
    /\ driven = "receiver"
    /\ LET st == Receiver_shutdown_fn(ReceiverSt)
       IN  /\ ReceiverCommit(st)
           /\ Wake(st.notified)

Receiver_sibling_fail ==
    /\ driven = "receiver"
    /\ \E retval \in KernelErrors :
           LET st == Sibling_fail_fn(ReceiverSt, retval)
           IN  /\ ReceiverCommit(st)
               /\ Wake(st.notified)

NextReceiver ==
    \/ Receiver_read_call
    \/ Receiver_read_try
    \/ Receiver_read_poll
    \/ Receiver_complete_end
    \/ Receiver_complete_data
    \/ Receiver_shutdown
    \/ Receiver_sibling_fail

SpecReceiver == InitReceiver /\ [][NextReceiver]_vars

(***************************************************************************)
(* The Acceptor of a listening socket: a task calling accept and the       *)
(* backend completing the accepts in flight, in any order.                 *)
(***************************************************************************)
\* Largest backlog handed to Acceptor::new.
MaxBacklog == 3
\* Number of connections the backend delivers in one run.
MaxConns == 5

AcceptorSt ==
    [inner |-> a_inner, common |-> common, aux |-> a_aux,
     notified |-> {}, ret |-> 0]

AcceptorCommit(st) ==
    /\ a_inner' = st.inner
    /\ common' = st.common
    /\ a_aux' = st.aux
    /\ UNCHANGED notAcceptorState

\* The backlog in force: the argument of Acceptor::new, clamped.
Backlog == a_inner.accept_slab.cap

InitAcceptor ==
    /\ driven = "acceptor"
    /\ \E backlog \in 0..MaxBacklog :
         LET st == Acceptor_new(backlog)
         IN  /\ a_inner = st.inner
             /\ common = st.common
             /\ a_aux = st.aux
    /\ acceptor = [pc |-> "idle", ret |-> None]
    /\ IdleBuf
    /\ IdleSender
    /\ IdleReceiver
    /\ IdleConnector
    /\ IdleSlab

\* accept(output_addr) is called.
Acceptor_accept_call ==
    /\ driven = "acceptor"
    /\ acceptor.pc = "idle"
    /\ acceptor' = [pc |-> "try", ret |-> None]
    /\ UNCHANGED <<common, a_inner, a_aux, notAcceptorVars>>

\* One turn of the loop of accept: try_accept, then return or go polling.
Acceptor_accept_try ==
    /\ driven = "acceptor"
    /\ acceptor.pc = "try"
    /\ LET st == try_accept(AcceptorSt)
       IN  /\ AcceptorCommit(st)
           /\ acceptor' = IF st.ret # -EAGAIN
                           THEN [pc |-> "idle", ret |-> Some(st.ret)]
                           ELSE [acceptor EXCEPT !.pc = "poll"]
    /\ UNCHANGED <<writer, reader>>

\* poll_by(IN, poller): retry at once if IN or an always-polled bit is set,
\* else wait.
Acceptor_accept_poll ==
    /\ driven = "acceptor"
    /\ acceptor.pc = "poll"
    /\ acceptor' = [acceptor EXCEPT
                      !.pc = IF poll_by(common, {Events_IN}) = {} THEN "wait" ELSE "try"]
    /\ UNCHANGED <<common, a_inner, a_aux, notAcceptorVars>>

\* The backend completes one accept in flight with a new connection; its
\* descriptor is one no earlier connection had.
Acceptor_complete_ok ==
    /\ driven = "acceptor"
    /\ Len(a_aux.completed) < MaxConns
    /\ \E op \in a_aux.in_flight :
         LET st0 == [AcceptorSt EXCEPT !.aux.in_flight = @ \ {op}]
             st  == Acceptor_callback(st0, op.index, Len(a_aux.completed) + 1)
         IN  /\ AcceptorCommit(st)
             /\ Wake(st.notified)

\* The backend completes one accept in flight with an error.
Acceptor_complete_err ==
    /\ driven = "acceptor"
    /\ \E op \in a_aux.in_flight, retval \in KernelErrors :
           LET st0 == [AcceptorSt EXCEPT !.aux.in_flight = @ \ {op}]
               st  == Acceptor_callback(st0, op.index, retval)
           IN  /\ AcceptorCommit(st)
               /\ Wake(st.notified)

Acceptor_sibling_fail ==
    /\ driven = "acceptor"
    /\ \E retval \in KernelErrors :
           LET st == Sibling_fail_fn(AcceptorSt, retval)
           IN  /\ AcceptorCommit(st)
               /\ Wake(st.notified)

NextAcceptor ==
    \/ Acceptor_accept_call
    \/ Acceptor_accept_try
    \/ Acceptor_accept_poll
    \/ Acceptor_complete_ok
    \/ Acceptor_complete_err
    \/ Acceptor_sibling_fail

SpecAcceptor == InitAcceptor /\ [][NextAcceptor]_vars

(***************************************************************************)
(* One socket: the Sender, the Receiver or the Acceptor that holds the     *)
(* socket's Common, with the other holders of the Common acting on it      *)
(* through the Common alone.                                               *)
(***************************************************************************)
InitSocket == InitSender \/ InitReceiver \/ InitAcceptor

NextSocket == NextSender \/ NextReceiver \/ NextAcceptor

SpecSocket == InitSocket /\ [][NextSocket]_vars

(***************************************************************************)
(* The Connector of one socket: tasks calling connect, a caller of         *)
(* shutdown, and the backend completing the connects submitted.            *)
(***************************************************************************)
\* Number of tasks calling connect, and of connects submitted in one run.
MaxTasks == 2
MaxConnects == 2

Tasks == 1..MaxTasks

\* The address handed to connect; 0 is the zeroed sockaddr_in.
ConnAddrs == {1}

ConnectorSt ==
    [inner |-> c_inner, pollee |-> c_pollee, aux |-> c_aux,
     notified |-> {}, ret |-> None, panic |-> FALSE]

ConnectorCommit(st) ==
    /\ c_inner' = st.inner
    /\ c_pollee' = st.pollee
    /\ c_aux' = st.aux
    /\ UNCHANGED notConnectorVars

\* The tasks suspended in Poller::wait are made runnable by a readiness
\* update; hup records that the update was the HUP of shutdown.
ConnectorWake(notified) ==
    connecting' =
        [t \in Tasks |->
            IF connecting[t].pc = "wait" /\ notified # {}
            THEN [connecting[t] EXCEPT !.pc = "finish",
                                       !.hup = Events_HUP \in notified]
            ELSE connecting[t]]

InitConnector ==
    /\ driven = "connector"
    /\ common = Common_new
    /\ c_inner = Connector_Inner_new
    /\ c_pollee = {}
    /\ \E debug \in BOOLEAN : c_aux = Connector_aux_new(debug)
    /\ connecting = [t \in Tasks |->
                       [pc |-> "idle", addr |-> 0, op |-> 0, ret |-> None,
                        hup |-> FALSE]]
    /\ IdleBuf
    /\ IdleSender
    /\ IdleReceiver
    /\ IdleAcceptor
    /\ IdleSlab

\* connect(addr) is called by task t.
Connector_connect_call(t) ==
    /\ driven = "connector"
    /\ connecting[t].pc = "idle"
    /\ \/ Len(c_aux.ops) < MaxConnects
       \/ c_inner.is_shutdown
       \/ c_aux.poisoned
    /\ \E addr \in ConnAddrs :
         connecting' = [connecting EXCEPT
                          ![t] = [pc |-> "init", addr |-> addr, op |-> 0,
                                  ret |-> None, hup |-> FALSE]]
    /\ UNCHANGED <<c_inner, c_pollee, c_aux, notConnectorVars>>

\* The first block of connect: return -EPIPE, panic, or submit and go on.
\* The backend reads the address through the dangling inner.addr.
Connector_connect_initiate(t) ==
    /\ driven = "connector"
    /\ connecting[t].pc = "init"
    /\ \E kaddr \in {connecting[t].addr, 0} :
         LET st == connect_initiate(ConnectorSt, kaddr)
         IN  /\ ConnectorCommit(st)
             /\ connecting' =
                  [connecting EXCEPT
                     ![t] = IF st.panic THEN [@ EXCEPT !.pc = "panicked"]
                            ELSE IF st.ret # None
                            THEN [@ EXCEPT !.pc = "idle", !.ret = st.ret]
                            ELSE [@ EXCEPT !.pc = "poll",
                                           !.op = st.inner.pending_io[1]]]

\* poll_by(Events::IN, poller), then wait if no event was there.
Connector_connect_poll(t) ==
    /\ driven = "connector"
    /\ connecting[t].pc = "poll"
    /\ connecting' =
         [connecting EXCEPT
            ![t].pc = IF poll_by([pollee |-> c_pollee], {Events_IN}) = {}
                      THEN "wait" ELSE "finish"]
    /\ UNCHANGED <<c_inner, c_pollee, c_aux, notConnectorVars>>

\* The last block of connect.
Connector_connect_finish(t) ==
    /\ driven = "connector"
    /\ connecting[t].pc = "finish"
    /\ LET st == connect_finish(ConnectorSt)
       IN  /\ ConnectorCommit(st)
           /\ connecting' =
                [connecting EXCEPT
                   ![t] = IF st.panic THEN [@ EXCEPT !.pc = "panicked"]
                          ELSE [@ EXCEPT !.pc = "idle", !.ret = st.ret]]

\* The backend completes a connect submitted: 0 or a negative error.
Connector_complete ==
    /\ driven = "connector"
    /\ \E handle \in 1..Len(c_aux.ops), retval \in {0} \cup KernelErrors :
         /\ c_aux.ops[handle].retval = None
         /\ LET st == Connector_callback(ConnectorSt, handle, retval)
            IN  /\ ConnectorCommit(st)
                /\ ConnectorWake(st.notified)

\* shutdown() is called.
Connector_shutdown ==
    /\ driven = "connector"
    /\ LET st == Connector_shutdown_fn(ConnectorSt)
       IN  /\ ConnectorCommit(st)
           /\ ConnectorWake(st.notified)

NextConnector ==
    \/ \E t \in Tasks : Connector_connect_call(t)
    \/ \E t \in Tasks : Connector_connect_initiate(t)
    \/ \E t \in Tasks : Connector_connect_poll(t)
    \/ \E t \in Tasks : Connector_connect_finish(t)
    \/ Connector_complete
    \/ Connector_shutdown

SpecConnector == InitConnector /\ [][NextConnector]_vars

\* A runnable task is run, and the backend delivers every completion.
FairConnector ==
    /\ \A t \in Tasks : WF_vars(Connector_connect_initiate(t))
    /\ \A t \in Tasks : WF_vars(Connector_connect_poll(t))
    /\ \A t \in Tasks : WF_vars(Connector_connect_finish(t))
    /\ WF_vars(Connector_complete)

SpecConnectorFair == SpecConnector /\ FairConnector

(***************************************************************************)
(* A RawSlab on its own: a caller allocates, and frees pointers it holds.  *)
(***************************************************************************)
MaxSlabLen == 4

InitSlab ==
    /\ driven = "slab"
    /\ \E buf_len \in 0..MaxSlabLen : rslab = RawSlab_new(buf_len)
    /\ rs_live = {}
    /\ rs_ret = None
    /\ common = Common_new
    /\ IdleBuf
    /\ IdleSender
    /\ IdleReceiver
    /\ IdleAcceptor
    /\ IdleConnector

\* alloc(): the caller keeps the pointer it gets.
Slab_alloc ==
    /\ driven = "slab"
    /\ LET r == RawSlab_alloc(rslab)
       IN  /\ rslab' = r.slab
           /\ rs_ret' = Some(r.ptr)
           /\ rs_live' = IF r.ptr = None THEN rs_live ELSE rs_live \cup {r.ptr[1]}
    /\ UNCHANGED notSlabVars

\* dealloc(ptr), on a pointer alloc returned and the caller has not freed:
\* the contract of the unsafe fn.
Slab_dealloc ==
    /\ driven = "slab"
    /\ \E ptr \in rs_live :
           /\ rslab' = RawSlab_dealloc(rslab, ptr)
           /\ rs_live' = rs_live \ {ptr}
           /\ rs_ret' = None
    /\ UNCHANGED notSlabVars

NextSlab ==
    \/ Slab_alloc
    \/ Slab_dealloc

SpecSlab == InitSlab /\ [][NextSlab]_vars

InitBuf ==
    /\ driven = "buf"
    /\ InitBufVars
    /\ common = Common_new
    /\ IdleSender
    /\ IdleReceiver
    /\ IdleAcceptor
    /\ IdleConnector
    /\ IdleSlab

SpecBuf == InitBuf /\ [][NextBuf]_vars

(***************************************************************************)
(* C1.  CircularBuf is a FIFO byte queue: the bytes returned by consume    *)
(* are, in order, a prefix of the bytes accepted by produce, and what is   *)
(* accepted and not yet returned is exactly what the buffer holds; no byte *)
(* is lost, duplicated, reordered or altered, also across the wrap.        *)
(***************************************************************************)
C1_Fifo == cb_in = cb_out \o Contents(cbuf)

\* The cursors have wrapped: more bytes went through than the storage is long,
\* and all of them came out again.
C1_Witness ==
    /\ Len(cb_out) > cbuf.len
    /\ cb_out = cb_in
    /\ \E i \in 1..Len(cb_out) : cb_out[i] = 1
    /\ \E i \in 1..Len(cb_out) : cb_out[i] = 0

(***************************************************************************)
(* C2.  In every state reachable by produce, consume, produce_without_copy *)
(* and consume_without_copy: producible() + consumable() = capacity() =    *)
(* len - 1 (in usize arithmetic, so producible() never underflows),        *)
(* is_full() iff producible() = 0, is_empty() iff consumable() = 0; and a  *)
(* buffer that has accepted nothing yet is empty with producible() =       *)
(* len - 1.                                                                *)
(***************************************************************************)
C2_Capacity ==
    /\ producible(cbuf) + consumable(cbuf) = capacity(cbuf)
    /\ capacity(cbuf) = cbuf.len - 1
    /\ is_full(cbuf) <=> producible(cbuf) = 0
    /\ is_empty(cbuf) <=> consumable(cbuf) = 0
    /\ cb_in = <<>> => is_empty(cbuf) /\ producible(cbuf) = cbuf.len - 1

\* A full buffer whose contents wrap past the end of the storage.
C2_Witness ==
    /\ is_full(cbuf)
    /\ ~is_empty(cbuf)
    /\ cbuf.tail < cbuf.head
    /\ cbuf.tail > 0

(***************************************************************************)
(* C5.  Deferred close (safety): whenever the write direction is           *)
(* half-closed at the OS level (SHUT_WR), the sender's ring buffer holds   *)
(* no unflushed byte and no flush is in flight.                            *)
(***************************************************************************)
C5_DeferredClose ==
    \A i \in 1..Len(s_aux.shut_wr) :
        s_aux.shut_wr[i].buffered = 0 /\ ~s_aux.shut_wr[i].in_flight

\* shutdown was called with bytes still buffered, and the half-close was
\* issued later, by the completion that emptied the buffer.
C5_Witness ==
    /\ s_inner.is_shutdown
    /\ Len(s_aux.shut_wr) = 1
    /\ s_aux.shut_wr[1].by = "complete_fn"

\* A step of try_write: the only step that takes the writer out of "try".
WriteTryStep == writer.pc = "try" /\ writer'.pc # "try"

\* try_write left the sender and the socket as they were and submitted nothing.
WriteUntouched ==
    /\ s_inner' = s_inner
    /\ (Events_OUT \in common'.pollee) = (Events_OUT \in common.pollee)
    /\ common' = common
    /\ s_aux' = s_aux

(***************************************************************************)
(* C7.  try_write decides in this order: shut down -> -EPIPE; else a       *)
(* sticky error is set -> that error; else a zero-length input -> 0.  In   *)
(* each of the three cases the ring buffer, the OUT bit and the flush in   *)
(* flight are unchanged and no flush is submitted.                         *)
(***************************************************************************)
C7_TryWriteOrder ==
    [][WriteTryStep =>
        /\ s_inner.is_shutdown =>
              /\ writer' = [writer EXCEPT !.pc = "idle", !.ret = Some(-EPIPE)]
              /\ WriteUntouched
        /\ ~s_inner.is_shutdown /\ common.error # None =>
              /\ writer' = [writer EXCEPT !.pc = "idle", !.ret = common.error]
              /\ WriteUntouched
        /\ ~s_inner.is_shutdown /\ common.error = None /\ Len(writer.buf) = 0 =>
              /\ writer' = [writer EXCEPT !.pc = "idle", !.ret = Some(0)]
              /\ WriteUntouched]_vars

\* A write on a sender that is shut down and whose socket also carries a
\* sticky error, with bytes buffered and a flush in flight, returned -EPIPE.
C7_Witness ==
    /\ writer.pc = "idle"
    /\ writer.ret = Some(-EPIPE)
    /\ Len(writer.buf) > 0
    /\ s_inner.is_shutdown
    /\ common.error # None
    /\ ~is_empty(s_inner.buf)
    /\ s_inner.pending_io # None

(***************************************************************************)
(* C8.  Sender backpressure: on a sender that is not shut down and has no  *)
(* sticky error, a write attempt of L > 0 bytes returns min(L, producible) *)
(* and buffers exactly those bytes when producible > 0; it signals         *)
(* would-block (the caller goes polling, nothing is buffered) exactly when *)
(* producible = 0; and no write of a non-empty input returns 0.            *)
(***************************************************************************)
C8_Backpressure ==
    [][WriteTryStep /\ Len(writer.buf) > 0 =>
        /\ writer'.pc = "idle" => writer'.ret # Some(0)
        /\ writer'.pc = "poll" => producible(s_inner.buf) = 0
        /\ ~s_inner.is_shutdown /\ common.error = None =>
              LET L == Len(writer.buf)
                  n == Min(L, producible(s_inner.buf))
              IN  IF producible(s_inner.buf) > 0
                  THEN /\ writer'.pc = "idle"
                       /\ writer'.ret = Some(n)
                       /\ Contents(s_inner'.buf) =
                              Contents(s_inner.buf) \o SubSeq(writer.buf, 1, n)
                  ELSE /\ writer'.pc = "poll"
                       /\ s_inner' = s_inner]_vars

\* A short count: a three-byte write into a buffer with room for less
\* returned what fitted, and the buffer is full.
C8_Witness ==
    /\ writer.pc = "idle"
    /\ Len(writer.buf) = MaxChunk
    /\ writer.ret # None
    /\ writer.ret[1] > 0
    /\ writer.ret[1] < Len(writer.buf)
    /\ is_full(s_inner.buf)
    /\ common.error = None
    /\ ~s_inner.is_shutdown

\* The other side of C8: a writer suspended on a full buffer.
C8_WitnessBlocked ==
    /\ writer.pc = "wait"
    /\ is_full(s_inner.buf)
    /\ s_inner.buf.len > 1

\* A step of try_read: the only step that takes the reader out of "try".
ReadTryStep == reader.pc = "try" /\ reader'.pc # "try"

(***************************************************************************)
(* C6.  EOF stickiness: once a fill completion has reported 0, the         *)
(* end-of-file state is never cleared and no further fill is submitted;    *)
(* every later read into a non-empty slice returns at once, without        *)
(* would-block and without the sticky error: the bytes still buffered      *)
(* while there are some, and 0 from the moment the ring is drained.        *)
(***************************************************************************)
C6_EofSticky ==
    [][r_inner.end_of_file =>
        /\ r_inner'.end_of_file
        /\ r_inner'.pending_io = None
        /\ r_aux'.nsub = r_aux.nsub
        /\ ReadTryStep /\ reader.len > 0 =>
              /\ reader'.pc = "idle"
              /\ reader'.ret = Some(Min(reader.len, consumable(r_inner.buf)))
              /\ is_empty(r_inner.buf) => reader'.ret = Some(0)]_vars

\* After end-of-file, on a socket that also carries a sticky error, a read
\* into a non-empty slice found the ring drained and returned 0.
C6_Witness ==
    /\ r_inner.end_of_file
    /\ common.error # None
    /\ is_empty(r_inner.buf)
    /\ r_inner.buf.head # 0
    /\ reader.pc = "idle"
    /\ reader.len > 0
    /\ reader.ret = Some(0)

(***************************************************************************)
(* C9.  try_read into a slice of length L > 0 returns min(L, consumable)   *)
(* and removes those bytes when consumable > 0; when nothing can be        *)
(* consumed it returns 0 if end-of-file was observed, else the sticky      *)
(* error if one is set, else it signals would-block.  A zero-length read   *)
(* returns 0 and changes neither the ring buffer nor the readiness.        *)
(***************************************************************************)
C9_TryRead ==
    [][ReadTryStep =>
        LET L == reader.len
            c == consumable(r_inner.buf)
        IN  /\ L = 0 =>
                  /\ reader' = [reader EXCEPT !.pc = "idle", !.ret = Some(0)]
                  /\ r_inner' = r_inner
                  /\ common' = common
                  /\ r_aux' = r_aux
            /\ L > 0 /\ c > 0 =>
                  /\ reader' = [reader EXCEPT !.pc = "idle", !.ret = Some(Min(L, c))]
                  /\ Contents(r_inner'.buf) =
                         SubSeq(Contents(r_inner.buf), Min(L, c) + 1, c)
            /\ L > 0 /\ c = 0 =>
                  /\ r_inner.end_of_file =>
                        reader' = [reader EXCEPT !.pc = "idle", !.ret = Some(0)]
                  /\ ~r_inner.end_of_file /\ common.error # None =>
                        reader' = [reader EXCEPT !.pc = "idle", !.ret = common.error]
                  /\ ~r_inner.end_of_file /\ common.error = None =>
                        reader' = [reader EXCEPT !.pc = "poll"]
                  /\ r_inner'.buf = r_inner.buf]_vars

\* A partial read: fewer bytes were buffered than the slice was long.
C9_Witness ==
    /\ reader.pc = "idle"
    /\ reader.len = MaxChunk
    /\ reader.ret # None
    /\ reader.ret[1] > 0
    /\ reader.ret[1] < reader.len
    /\ ~r_inner.end_of_file

\* The other cases of C9: a read that returned the sticky error, and a reader
\* suspended after would-block.
C9_WitnessError ==
    /\ reader.pc = "idle"
    /\ reader.len > 0
    /\ reader.ret # None
    /\ reader.ret = common.error

C9_WitnessBlocked ==
    /\ reader.pc = "wait"
    /\ is_empty(r_inner.buf)
    /\ r_inner.pending_io # None

\* The number of accept slots in the given state.
CountSlots(tag) ==
    Cardinality({k \in 1..Len(a_inner.accept_slab.entries) :
                    a_inner.accept_slab.entries[k].tag = tag})

(***************************************************************************)
(* C3, as claimed.  After any sequence of accept completions (successful   *)
(* or failed) and accept() consumptions, the number of Pending slots plus  *)
(* the number of Completed slots equals the clamped backlog.               *)
(***************************************************************************)
C3_Original == CountSlots("Pending") + CountSlots("Completed") = Backlog

(***************************************************************************)
(* C3, amended.  The number of Pending slots plus the number of Completed  *)
(* slots equals the clamped backlog minus the number of accept completions *)
(* that failed since the pool was last filled up (at construction or by    *)
(* the latest successful accept()): a failed slot is freed and not         *)
(* resubmitted until then.                                                 *)
(***************************************************************************)
C3_Backlog ==
    /\ CountSlots("Pending") + CountSlots("Completed") = Backlog - a_aux.failed
    /\ a_inner.accept_slab.len = CountSlots("Pending") + CountSlots("Completed")
    /\ Backlog \in MIN_BACKLOG..MAX_BACKLOG
    /\ \A b \in 0..(MAX_BACKLOG + 2) :
          Acceptor_Inner_new(b).accept_slab.cap =
            IF b < MIN_BACKLOG THEN MIN_BACKLOG
            ELSE IF b > MAX_BACKLOG THEN MAX_BACKLOG ELSE b

\* Completions have failed, a later accept() has filled the pool up again,
\* and one more completion has failed since.
C3_Witness ==
    /\ Backlog = MaxBacklog
    /\ Len(a_aux.accepted) > 0
    /\ CountSlots("Completed") > 0
    /\ a_aux.failed = 1
    /\ CountSlots("Pending") + CountSlots("Completed") = Backlog - 1

(***************************************************************************)
(* C4.  accept() returns the accepted connections in the order their       *)
(* success completions were processed, each at most once: the descriptors  *)
(* returned so far are, in order, a prefix of the descriptors completed so *)
(* far, and the latest accept() returned the last of them.                 *)
(***************************************************************************)
C4_Fifo ==
    /\ IsPrefix(a_aux.accepted, a_aux.completed)
    /\ \A i, j \in 1..Len(a_aux.accepted) :
          i # j => a_aux.accepted[i] # a_aux.accepted[j]
    /\ a_aux.completed =
          a_aux.accepted \o
            [i \in 1..Len(a_inner.completed_indexes) |->
                Slab_get(a_inner.accept_slab, a_inner.completed_indexes[i]).fd]
    /\ acceptor.pc = "idle" /\ acceptor.ret # None /\ acceptor.ret[1] >= 0 =>
          acceptor.ret[1] = a_aux.accepted[Len(a_aux.accepted)]

\* Connections were returned while later ones wait in the queue, in slots
\* whose indexes are not in queue order (slots are reused after a refill).
C4_Witness ==
    /\ Len(a_aux.accepted) >= 2
    /\ Len(a_inner.completed_indexes) >= 2
    /\ a_inner.completed_indexes[1] > a_inner.completed_indexes[2]
    /\ acceptor.pc = "idle"
    /\ acceptor.ret = Some(a_aux.accepted[Len(a_aux.accepted)])

\* A call returns: its task leaves the loop with a result.
WriteReturns  == writer.pc = "try" /\ writer'.pc = "idle"
ReadReturns   == reader.pc = "try" /\ reader'.pc = "idle"
AcceptReturns == acceptor.pc = "try" /\ acceptor'.pc = "idle"

\* A step of the loop of accept that calls try_accept.
AcceptTryStep == acceptor.pc = "try" /\ acceptor'.pc # "try"

(***************************************************************************)
(* C10, as claimed.  Once a completion has latched a negative code in      *)
(* Common.error, every read, write and accept call that returns afterwards *)
(* returns the latched code.                                               *)
(***************************************************************************)
C10_Original ==
    [][common.error # None =>
         /\ WriteReturns => writer'.ret = common.error
         /\ ReadReturns => reader'.ret = common.error
         /\ AcceptReturns => acceptor'.ret = common.error]_vars

(***************************************************************************)
(* C10, amended.  A latched code is negative and is never cleared, only    *)
(* replaced by the code of a later failed completion.  While a code is     *)
(* latched no call suspends, and a call returns the latched code unless    *)
(* something comes first: write returns -EPIPE after shutdown; read        *)
(* returns 0 for an empty output slice, else the buffered bytes if there   *)
(* are any, else 0 after end-of-file; accept returns the oldest completed  *)
(* connection if one is queued.                                            *)
(***************************************************************************)
C10_StickyError ==
    [][/\ common.error # None =>
            /\ common'.error # None
            /\ common.error[1] < 0
       /\ a_aux'.failed > a_aux.failed => common'.error # None
       /\ common.error # None =>
            /\ WriteTryStep => writer'.pc = "idle"
            /\ ReadTryStep => reader'.pc = "idle"
            /\ AcceptTryStep => acceptor'.pc = "idle"
            /\ WriteReturns =>
                  writer'.ret = IF s_inner.is_shutdown THEN Some(-EPIPE)
                                ELSE common.error
            /\ ReadReturns =>
                  reader'.ret =
                    IF reader.len = 0 THEN Some(0)
                    ELSE IF consumable(r_inner.buf) > 0
                         THEN Some(Min(reader.len, consumable(r_inner.buf)))
                    ELSE IF r_inner.end_of_file THEN Some(0)
                    ELSE common.error
            /\ AcceptReturns =>
                  acceptor'.ret =
                    IF a_inner.completed_indexes # <<>>
                    THEN Some(Slab_get(a_inner.accept_slab,
                                       a_inner.completed_indexes[1]).fd)
                    ELSE common.error]_vars

\* A fill has failed, and a read that found nothing buffered and no
\* end-of-file has returned the latched code.
C10_Witness ==
    /\ driven = "receiver"
    /\ common.error # None
    /\ r_inner.pending_io = None
    /\ ~r_inner.end_of_file
    /\ reader.pc = "idle" /\ reader.len > 0 /\ reader.ret = common.error

\* A flush has failed, and a write of a non-empty slice has returned the
\* latched code.
C10_WitnessWrite ==
    /\ driven = "sender"
    /\ common.error # None
    /\ s_aux.nsub > 0
    /\ ~s_inner.is_shutdown
    /\ writer.pc = "idle" /\ Len(writer.buf) > 0 /\ writer.ret = common.error

\* An accept has failed, the connections queued before it have been
\* returned, and the next accept has returned the latched code.
C10_WitnessAccept ==
    /\ driven = "acceptor"
    /\ common.error # None
    /\ a_aux.failed > 0
    /\ Len(a_aux.accepted) > 0
    /\ acceptor.pc = "idle" /\ acceptor.ret = common.error

\* Steps of task t that run the first and the last block of connect.
ConnectInitiateStep(t) == connecting[t].pc = "init" /\ connecting'[t].pc # "init"
ConnectFinishStep(t) == connecting[t].pc = "finish" /\ connecting'[t].pc # "finish"

\* The connects submitted and not completed.
ConnectsInFlight == {h \in 1..Len(c_aux.ops) : c_aux.ops[h].retval = None}

(***************************************************************************)
(* C11.  connect on a Connector whose shutdown has been called returns     *)
(* -EPIPE at once: nothing is submitted, Inner (the pending handle, the    *)
(* pinned address) is unchanged, and the caller does not suspend.          *)
(***************************************************************************)
C11_EpipeAfterShutdown ==
    [][\A t \in Tasks :
         ConnectInitiateStep(t) /\ c_inner.is_shutdown =>
            /\ connecting'[t].pc = "idle"
            /\ connecting'[t].ret = Some(-EPIPE)
            /\ c_aux'.ops = c_aux.ops
            /\ c_inner' = c_inner]_vars

\* The case of C11 that goes as claimed: shutdown, then a connect that
\* returned -EPIPE with nothing submitted.
C11_Witness ==
    /\ c_inner.is_shutdown
    /\ c_aux.ops = <<>>
    /\ \E t \in Tasks :
         connecting[t].pc = "idle" /\ connecting[t].ret = Some(-EPIPE)

(***************************************************************************)
(* C12.  A connect call that submitted an operation goes past its wait     *)
(* only after the completion of that operation has fired: the result it    *)
(* reads from the handle is present, and the call returns it.              *)
(***************************************************************************)
C12_RawResult ==
    [][\A t \in Tasks :
         ConnectFinishStep(t) =>
            /\ c_aux.ops[connecting[t].op].retval # None
            /\ connecting'[t].pc = "idle"
            /\ connecting'[t].ret = c_aux.ops[connecting[t].op].retval]_vars

\* The case of C12 that goes as claimed: a connect returned the result of
\* its own completed operation.
C12_Witness ==
    \E t \in Tasks :
        /\ connecting[t].pc = "idle"
        /\ connecting[t].op > 0
        /\ connecting[t].ret # None
        /\ connecting[t].ret = c_aux.ops[connecting[t].op].retval
        /\ connecting[t].ret[1] < 0

(***************************************************************************)
(* C13.  shutdown sets is_shutdown and raises HUP on the private pollee,   *)
(* and a task suspended inside connect when shutdown is called is woken    *)
(* and its connect call returns.                                           *)
(***************************************************************************)
C13_ShutdownUnblocks ==
    /\ [](c_inner.is_shutdown => Events_HUP \in c_pollee)
    /\ \A t \in Tasks :
          (connecting[t].pc = "finish" /\ connecting[t].hup)
             ~> (connecting[t].pc = "idle")

\* A task that shutdown woke from its wait.
C13_Witness ==
    \E t \in Tasks :
        /\ connecting[t].pc = "finish"
        /\ connecting[t].hup
        /\ c_inner.is_shutdown

(***************************************************************************)
(* C14.  A Connector submits at most one connect over its lifetime, and    *)
(* never has more than one in flight, whatever the sequence of connect and *)
(* shutdown calls.                                                         *)
(***************************************************************************)
C14_SingleShot ==
    /\ Len(c_aux.ops) <= 1
    /\ Cardinality(ConnectsInFlight) <= 1

(***************************************************************************)
(* C15.  A Sender never has more than one flush in flight: flush_buf is    *)
(* entered, from try_write and from the chaining callback, only with no    *)
(* flush pending and a non-empty ring buffer, so its two assertions hold   *)
(* on every call; the flush in flight is the latest one submitted and      *)
(* carries at least one byte, all of them still in the buffer.             *)
(***************************************************************************)
C15_OneFlush ==
    /\ s_aux.ok
    /\ s_inner.pending_io # None =>
          /\ s_inner.pending_io[1].id = 1 - s_aux.nsub
          /\ s_inner.pending_io[1].iov_len >= 1
          /\ s_inner.pending_io[1].iov_len <= consumable(s_inner.buf)

\* The second flush of a sender is in flight behind a full buffer, with the
\* writer suspended.
C15_Witness ==
    /\ s_inner.pending_io # None
    /\ s_inner.pending_io[1].id = 1
    /\ is_full(s_inner.buf)
    /\ capacity(s_inner.buf) >= 2
    /\ writer.pc = "wait"

(***************************************************************************)
(* C16.  A Receiver never has more than one fill in flight: fill_buf is    *)
(* entered, from new, from try_read and from the chaining callback, only   *)
(* with a ring buffer that is not full, end-of-file not observed and no    *)
(* fill pending, so its three assertions hold on every call; the fill in   *)
(* flight is the latest one submitted.                                     *)
(***************************************************************************)
C16_OneFill ==
    /\ r_aux.ok
    /\ r_inner.pending_io # None =>
          /\ r_inner.pending_io[1].id = 1 - r_aux.nsub
          /\ ~r_inner.end_of_file

\* A fill chained after buffered data is in flight with every assertion of
\* fill_buf having held so far.
C16_Witness ==
    /\ r_aux.ok
    /\ r_inner.pending_io # None
    /\ r_inner.pending_io[1].id = 1
    /\ ~is_empty(r_inner.buf)
    /\ reader.pc = "idle"
    /\ reader.ret # None

\* A step of alloc on the standalone slab.
SlabAllocStep ==
    /\ driven = "slab"
    /\ rs_ret' # None
    /\ <<rslab, rs_live, rs_ret>>' # <<rslab, rs_live, rs_ret>>

(***************************************************************************)
(* C17.  RawSlab pointer validity: every pointer alloc returns addresses a *)
(* slot in [0, capacity) and differs from every pointer returned earlier   *)
(* and not yet deallocated, so a slot is handed out again only after its   *)
(* dealloc; the free list and the live pointers partition the slots.       *)
(***************************************************************************)
C17_PointerValid ==
    /\ [][SlabAllocStep /\ rs_ret'[1] # None =>
            /\ rs_ret'[1][1] \in 0..(RawSlab_capacity(rslab) - 1)
            /\ rs_ret'[1][1] \notin rs_live
            /\ rs_live' = rs_live \cup {rs_ret'[1][1]}]_vars
    /\ [](driven = "slab" =>
            /\ \A i, j \in 1..Len(rslab.free_indexes) :
                   i # j => rslab.free_indexes[i] # rslab.free_indexes[j]
            /\ {rslab.free_indexes[i] : i \in 1..Len(rslab.free_indexes)} \cap rs_live = {}
            /\ {rslab.free_indexes[i] : i \in 1..Len(rslab.free_indexes)} \cup rs_live
                   = 0..(RawSlab_capacity(rslab) - 1))

\* Slot 0 has been handed out a second time, after its dealloc, while
\* another slot is still allocated.
C17_Witness ==
    /\ driven = "slab"
    /\ rs_ret = Some(Some(0))
    /\ Cardinality(rs_live) = 2
    /\ Len(rslab.free_indexes) >= 1
    /\ rslab.free_indexes[1] # RawSlab_capacity(rslab) - 1

(***************************************************************************)
(* C18.  RawSlab bookkeeping: capacity() never changes, allocated() is the *)
(* number of pointers returned and not yet deallocated (so it lies between *)
(* 0 and capacity()), and alloc returns None exactly when allocated()      *)
(* equals capacity(), in which case the slab is left unchanged.            *)
(***************************************************************************)
C18_Bookkeeping ==
    /\ [][driven = "slab" => RawSlab_capacity(rslab') = RawSlab_capacity(rslab)]_vars
    /\ [](driven = "slab" =>
            /\ RawSlab_allocated(rslab) = Cardinality(rs_live)
            /\ RawSlab_allocated(rslab) \in 0..RawSlab_capacity(rslab))
    /\ [][SlabAllocStep =>
            /\ (rs_ret'[1] = None) <=> (RawSlab_allocated(rslab) = RawSlab_capacity(rslab))
            /\ rs_ret'[1] = None => rslab' = rslab /\ rs_live' = rs_live]_vars

\* alloc has returned None on a full slab of several slots.
C18_Witness ==
    /\ driven = "slab"
    /\ rs_ret = Some(None)
    /\ RawSlab_capacity(rslab) >= 2
    /\ RawSlab_allocated(rslab) = RawSlab_capacity(rslab)

\* The scenario of C19 so far: a backlog of 3 and no completion has failed.
ScenarioBacklog == 3
ScenarioConns == 5

InScenario == Backlog = ScenarioBacklog /\ common.error = None

\* The order of completion and the pool size, in the scenario.
ScenarioOrderAndPool ==
    /\ IsPrefix(a_aux.accepted, a_aux.completed)
    /\ a_aux.completed = [i \in 1..Len(a_aux.completed) |-> i]
    /\ CountSlots("Pending") + CountSlots("Completed") = ScenarioBacklog
    /\ CountSlots("Completed") = Len(a_inner.completed_indexes)

(***************************************************************************)
(* C19, as claimed.  With a backlog of 3, five successful completions      *)
(* arrive before any accept() is serviced: while fewer than five have      *)
(* arrived and no accept() has returned a connection, an accept is in      *)
(* flight for the next one; the connections are returned in completion     *)
(* order and Pending + Completed slots = 3 after every step.               *)
(***************************************************************************)
C19_Original ==
    InScenario =>
      /\ a_aux.accepted = <<>> /\ Len(a_aux.completed) < ScenarioConns => a_aux.in_flight # {}
      /\ ScenarioOrderAndPool

(***************************************************************************)
(* C19, amended.  With a backlog of 3, at most three successful            *)
(* completions arrive ahead of the accept() calls serviced so far (a slot  *)
(* is submitted again only by the accept() that returns its connection);   *)
(* when none is in flight exactly three wait in the queue; the connections *)
(* are returned in completion order and Pending + Completed slots = 3      *)
(* after every completion and every accept().                              *)
(***************************************************************************)
C19_Scenario ==
    InScenario =>
      /\ Len(a_aux.completed) - Len(a_aux.accepted) <= ScenarioBacklog
      /\ a_aux.in_flight = {} => Len(a_aux.completed) - Len(a_aux.accepted) = ScenarioBacklog
      /\ Cardinality(a_aux.in_flight) = CountSlots("Pending")
      /\ ScenarioOrderAndPool

\* Five connections have completed, three of them before the first accept()
\* could return, and accept() has returned all five in order.
C19_Witness ==
    /\ InScenario
    /\ a_aux.accepted = [i \in 1..ScenarioConns |-> i]
    /\ a_aux.completed = a_aux.accepted
    /\ acceptor.pc = "idle"
    /\ acceptor.ret = Some(ScenarioConns)
    /\ CountSlots("Pending") = ScenarioBacklog

(***************************************************************************)
(* C20.  Receiver::shutdown issues the read half-close at once and changes *)
(* nothing of the receiver: the ring buffer and its cursors, end_of_file,  *)
(* the fill in flight, the sticky error and the readiness bits stay as     *)
(* they were, and no task is woken; after it, a read into a non-empty      *)
(* slice still returns the oldest buffered bytes and leaves the rest.      *)
(***************************************************************************)
C20_ShutdownFrame ==
    /\ [][Receiver_shutdown =>
            /\ r_aux'.shut_rd
            /\ r_inner' = r_inner
            /\ common' = common
            /\ reader' = reader
            /\ r_aux' = [r_aux EXCEPT !.shut_rd = TRUE]]_vars
    /\ [][ReadTryStep /\ r_aux.shut_rd /\ reader.len > 0 /\ ~is_empty(r_inner.buf) =>
            LET n == Min(reader.len, consumable(r_inner.buf))
            IN  /\ reader' = [reader EXCEPT !.pc = "idle", !.ret = Some(n)]
                /\ consume(r_inner.buf, reader.len).data = SubSeq(Contents(r_inner.buf), 1, n)
                /\ Contents(r_inner'.buf) =
                      SubSeq(Contents(r_inner.buf), n + 1, consumable(r_inner.buf))]_vars

\* After shutdown a read is about to be served from bytes that wrap around
\* the end of the ring buffer, with no fill in flight.
C20_Witness ==
    /\ r_aux.shut_rd
    /\ reader.pc = "try"
    /\ reader.len > 0
    /\ consumable(r_inner.buf) >= 2
    /\ r_inner.buf.head > r_inner.buf.tail
    /\ r_inner.pending_io = None

(***************************************************************************)
(* C21.  Deferred close (liveness): once Sender::shutdown has been called  *)
(* and every flush gets its completion, the write half-close is eventually *)
(* issued: by shutdown itself when nothing is buffered or in flight, and   *)
(* otherwise, not by shutdown but by a flush completion, successful or     *)
(* failed, that leaves the ring buffer empty.                              *)
(***************************************************************************)
C21_EventualClose ==
    /\ s_inner.is_shutdown ~> (Len(s_aux.shut_wr) > 0)
    /\ [][~s_inner.is_shutdown /\ s_inner'.is_shutdown =>
            IF s_inner.pending_io = None /\ is_empty(s_inner.buf)
            THEN /\ Len(s_aux'.shut_wr) = 1
                 /\ s_aux'.shut_wr[1].by = "shutdown"
            ELSE s_aux'.shut_wr = <<>>]_vars
    /\ [](\A i \in 1..Len(s_aux.shut_wr) :
            s_aux.shut_wr[i].by = "complete_fn" =>
                s_aux.shut_wr[i].buffered = 0 /\ s_inner.is_shutdown)

\* shutdown found a flush in flight; the flush failed, its callback dropped
\* the bytes left and issued the half-close.
C21_Witness ==
    /\ s_inner.is_shutdown
    /\ Len(s_aux.shut_wr) = 1
    /\ s_aux.shut_wr[1].by = "complete_fn"
    /\ common.error # None
    /\ Events_ERR \in common.pollee
    /\ s_inner.pending_io = None

(***************************************************************************)
(* C22.  The sticky error of Common is last-write-wins and never cleared:  *)
(* error() is None on a new Common, after set_error(c) it is c whatever    *)
(* was stored before, every code the socket stores is negative, and once   *)
(* set the error never returns to None.                                    *)
(***************************************************************************)
C22_StickyLastWrite ==
    /\ [](/\ Common_error(Common_new) = None
          /\ \A c \in KernelErrors :
                 Common_error(set_error(common, c)) = Some(c)
          /\ Common_error(common) # None => Common_error(common)[1] < 0)
    /\ [][/\ Common_error(common) # None => Common_error(common') # None
          /\ Common_error(common') # Common_error(common) =>
                /\ Common_error(common') \in {Some(c) : c \in KernelErrors}
                /\ Events_ERR \in common'.pollee]_vars

\* Two accept completions have failed one after the other; the error is set.
C22_Witness ==
    /\ driven = "acceptor"
    /\ a_aux.failed >= 2
    /\ Common_error(common) # None
    /\ Events_ERR \in common.pollee

(***************************************************************************)
(* C23.  A pending accept that completes with a negative result: the       *)
(* callback latches the code as the sticky error, raises ERR, frees the    *)
(* slot's address and removes the slot from the accept slab without        *)
(* submitting a new accept; the completed queue, every other slot and the  *)
(* other readiness bits, IN among them, stay as they were.                 *)
(***************************************************************************)
C23_FailedAccept ==
    [][Acceptor_complete_err =>
        \E op \in a_aux.in_flight :
            /\ a_aux'.in_flight = a_aux.in_flight \ {op}
            /\ Common_error(common') \in {Some(c) : c \in KernelErrors}
            /\ Events_ERR \in common'.pollee
            /\ common'.pollee \ {Events_ERR} = common.pollee \ {Events_ERR}
            /\ Slab_occupied(a_inner.accept_slab, op.index)
            /\ Slab_get(a_inner.accept_slab, op.index).tag = "Pending"
            /\ ~Slab_occupied(a_inner'.accept_slab, op.index)
            /\ a_inner'.accept_slab.len = a_inner.accept_slab.len - 1
            /\ a_inner'.addr_raw_slab =
                  RawSlab_dealloc(a_inner.addr_raw_slab, Slab_get(a_inner.accept_slab, op.index).addr)
            /\ \A k \in 0..(Backlog - 1) :
                  k # op.index =>
                    /\ Slab_occupied(a_inner'.accept_slab, k) = Slab_occupied(a_inner.accept_slab, k)
                    /\ Slab_occupied(a_inner.accept_slab, k) =>
                          Slab_get(a_inner'.accept_slab, k) = Slab_get(a_inner.accept_slab, k)
            /\ a_inner'.completed_indexes = a_inner.completed_indexes
            /\ a_aux'.completed = a_aux.completed
            /\ a_aux'.accepted = a_aux.accepted
            /\ acceptor'.ret = acceptor.ret]_vars

\* An accept has failed while connections wait in the queue and other
\* accepts are still pending: ERR and IN are both set.
C23_Witness ==
    /\ Backlog = MaxBacklog
    /\ a_aux.failed = 1
    /\ a_aux.accepted = <<>>
    /\ Len(a_inner.completed_indexes) = 1
    /\ CountSlots("Pending") = 1
    /\ common.pollee = {Events_IN, Events_ERR}

(***************************************************************************)
(* C24.  try_accept returns the sticky error only when the completed queue *)
(* is empty: with a connection queued it returns the oldest one's          *)
(* descriptor, sticky error or not; with the queue empty it returns the    *)
(* sticky error when set and signals would-block otherwise, and changes no *)
(* slot, submits no accept and changes no readiness bit.                   *)
(***************************************************************************)
C24_ErrorAfterQueue ==
    [][AcceptTryStep =>
        /\ a_inner.completed_indexes # <<>> =>
              /\ acceptor' = [pc |-> "idle",
                              ret |-> Some(Slab_get(a_inner.accept_slab,
                                                    Head(a_inner.completed_indexes)).fd)]
              /\ a_inner'.completed_indexes = Tail(a_inner.completed_indexes)
              /\ Common_error(common') = Common_error(common)
        /\ a_inner.completed_indexes = <<>> =>
              /\ Common_error(common) # None =>
                    acceptor' = [pc |-> "idle", ret |-> Common_error(common)]
              /\ Common_error(common) = None =>
                    acceptor' = [acceptor EXCEPT !.pc = "poll"]
              /\ a_inner' = a_inner
              /\ a_aux' = a_aux
              /\ common' = common]_vars

\* With the sticky error set, accept() has returned a connection and more
\* are queued behind it.
C24_Witness ==
    /\ driven = "acceptor"
    /\ Common_error(common) # None
    /\ common.pollee = {Events_IN, Events_ERR}
    /\ acceptor.pc = "idle"
    /\ Len(a_aux.accepted) >= 1
    /\ acceptor.ret = Some(a_aux.accepted[Len(a_aux.accepted)])
    /\ Len(a_inner.completed_indexes) >= 1
    /\ CountSlots("Pending") + CountSlots("Completed") = Backlog

(***************************************************************************)
(* C25.  On a socket used through its Acceptor, whenever the lock is free  *)
(* the IN readiness bit is set exactly when the completed queue is not     *)
(* empty: IN is raised by a success completion, which enqueues its slot,   *)
(* and cleared only by the try_accept whose pop leaves the queue empty.    *)
(***************************************************************************)
C25_InIffQueued ==
    /\ []((Events_IN \in common.pollee) <=> (a_inner.completed_indexes # <<>>))
    /\ [][/\ Events_IN \in common.pollee /\ Events_IN \notin common'.pollee =>
                /\ AcceptTryStep
                /\ Len(a_inner.completed_indexes) = 1
                /\ a_inner'.completed_indexes = <<>>
          /\ Events_IN \notin common.pollee /\ Events_IN \in common'.pollee =>
                /\ Acceptor_complete_ok
                /\ Len(a_inner'.completed_indexes) = 1]_vars

\* accept() has taken the last queued connection and IN is clear, while
\* the refilled accepts are pending.
C25_Witness ==
    /\ Backlog = MaxBacklog
    /\ Len(a_aux.accepted) >= 2
    /\ acceptor.pc = "idle"
    /\ acceptor.ret = Some(a_aux.accepted[Len(a_aux.accepted)])
    /\ a_inner.completed_indexes = <<>>
    /\ Events_IN \notin common.pollee
    /\ CountSlots("Pending") = Backlog

(***************************************************************************)
(* C26.  In every reachable state of an Acceptor the pending accepts plus  *)
(* the completed accepts are at most the backlog: the completed queue      *)
(* holds at most backlog entries, at most backlog accepts are in flight,   *)
(* and the two together stay within the backlog.                           *)
(***************************************************************************)
C26_WithinBacklog ==
    /\ CountSlots("Pending") + CountSlots("Completed") <= Backlog
    /\ Len(a_inner.completed_indexes) <= Backlog
    /\ Cardinality(a_aux.in_flight) <= Backlog
    /\ Cardinality(a_aux.in_flight) + Len(a_inner.completed_indexes) <= Backlog
    /\ Cardinality(a_aux.in_flight) = CountSlots("Pending")
    /\ a_inner.accept_slab.len <= a_inner.accept_slab.cap

\* All accepts but one have failed and the last has completed: one slot is
\* in use out of the largest backlog, and nothing is in flight.
C26_Witness ==
    /\ Backlog = MaxBacklog
    /\ a_aux.failed = Backlog - 1
    /\ Len(a_inner.completed_indexes) = 1
    /\ a_aux.in_flight = {}
    /\ a_inner.accept_slab.len = 1

(***************************************************************************)
(* C27.  Each accept slot goes Pending -> Completed at most once and is    *)
(* removed when consumed: every index in completed_indexes occurs once and *)
(* refers to an occupied Completed slot, the Completed slots are exactly   *)
(* the queued ones, every accept in flight has an occupied Pending slot    *)
(* (one accept per slot), so no callback and no try_accept has run into a  *)
(* failed lookup, a second completion or a Pending slot in the queue, also *)
(* with slab indexes reused by refilled accepts.                           *)
(***************************************************************************)
C27_SlotLifecycle ==
    LET q == a_inner.completed_indexes
    IN  /\ a_aux.ok
        /\ \A i, j \in 1..Len(q) : i # j => q[i] # q[j]
        /\ \A i \in 1..Len(q) :
              /\ Slab_occupied(a_inner.accept_slab, q[i])
              /\ Slab_get(a_inner.accept_slab, q[i]).tag = "Completed"
        /\ CountSlots("Completed") = Len(q)
        /\ \A op \in a_aux.in_flight :
              /\ Slab_occupied(a_inner.accept_slab, op.index)
              /\ Slab_get(a_inner.accept_slab, op.index).tag = "Pending"
              /\ Slab_get(a_inner.accept_slab, op.index).addr = op.addr
        /\ \A op1, op2 \in a_aux.in_flight : op1.index = op2.index => op1 = op2

\* A slot freed by accept() was refilled and has completed again, and a
\* slot freed by a failure is vacant; no panic so far.
C27_Witness ==
    /\ a_aux.ok
    /\ Len(a_aux.accepted) >= 1
    /\ a_aux.failed >= 1
    /\ \E i \in 1..Len(a_inner.completed_indexes) :
          Slab_get(a_inner.accept_slab, a_inner.completed_indexes[i]).fd > Backlog
    /\ a_inner.accept_slab.len < Backlog

(***************************************************************************)
(* C28.  A flush that completes with a negative result: the callback       *)
(* drops every byte left in the ring buffer, latches the code as the       *)
(* sticky error, raises ERR, does not raise OUT and submits no further     *)
(* flush; when shutdown had been requested it issues the write half-close  *)
(* in the same callback, and otherwise none.                               *)
(***************************************************************************)
C28_FailedFlush ==
    [][\A retval \in KernelErrors :
          Sender_complete_with(retval) =>
            /\ is_empty(s_inner'.buf)
            /\ s_inner'.buf.head = s_inner.buf.tail
            /\ Common_error(common') = Some(retval)
            /\ common'.pollee = common.pollee \cup {Events_ERR}
            /\ s_inner'.pending_io = None
            /\ s_aux'.nsub = s_aux.nsub
            /\ s_inner'.is_shutdown = s_inner.is_shutdown
            /\ s_aux'.shut_wr =
                  IF s_inner.is_shutdown
                  THEN Append(s_aux.shut_wr,
                              [by |-> "complete_fn", buffered |-> 0, in_flight |-> FALSE])
                  ELSE s_aux.shut_wr]_vars

\* Bytes were accepted by write, their flush failed, and the buffer is
\* empty with OUT clear and no half-close: the sender was not shut down.
C28_Witness ==
    /\ ~s_inner.is_shutdown
    /\ s_aux.shut_wr = <<>>
    /\ Common_error(common) # None
    /\ Events_ERR \in common.pollee
    /\ Events_OUT \notin common.pollee
    /\ is_empty(s_inner.buf)
    /\ s_inner.buf.head # 0
    /\ s_inner.pending_io = None
    /\ s_aux.nsub = 1

(***************************************************************************)
(* C29.  The Receiver keeps the kernel fill armed: from construction on,   *)
(* whenever the lock is free, if end-of-file has not been observed, no     *)
(* fill has completed with an error and the ring buffer is not full, then  *)
(* a fill is in flight, and it is the one submitted last.                  *)
(***************************************************************************)
C29_FillArmed ==
    ~r_inner.end_of_file /\ ~r_aux.fill_failed /\ ~is_full(r_inner.buf) =>
        /\ r_inner.pending_io # None
        /\ r_inner.pending_io[1].id = 1 - r_aux.nsub

\* A read has taken bytes and a fill is in flight behind the bytes left,
\* although another holder of the Common has latched an error.
C29_Witness ==
    /\ ~r_inner.end_of_file
    /\ ~r_aux.fill_failed
    /\ Common_error(common) # None
    /\ ~is_full(r_inner.buf)
    /\ ~is_empty(r_inner.buf)
    /\ reader.pc = "idle"
    /\ reader.ret # None
    /\ reader.ret[1] > 0
    /\ r_inner.pending_io # None

(***************************************************************************)
(* C30.  In every state of a CircularBuf reachable by its producer and     *)
(* consumer operations both cursors are indexes of the storage,            *)
(* 0 <= head < len and 0 <= tail < len, and the bytes held (accepted and   *)
(* not yet returned) are consumable() many and at most len - 1:            *)
(* head = tail exactly when no byte is held, never when len bytes are.     *)
(***************************************************************************)
C30_Cursors ==
    /\ cbuf.head \in 0..(cbuf.len - 1)
    /\ cbuf.tail \in 0..(cbuf.len - 1)
    /\ DOMAIN cbuf.mem = 0..(cbuf.len - 1)
    /\ Len(cb_in) - Len(cb_out) = consumable(cbuf)
    /\ Len(cb_in) - Len(cb_out) <= cbuf.len - 1
    /\ (cbuf.head = cbuf.tail) <=> (Len(cb_in) = Len(cb_out))

\* Both cursors have gone around the storage and met again: everything
\* accepted has been returned, away from index 0.
C30_Witness ==
    /\ cbuf.len = MaxBufLen
    /\ cbuf.head = cbuf.tail
    /\ cbuf.head = cbuf.len - 1
    /\ Len(cb_out) > cbuf.len
    /\ Len(cb_in) = Len(cb_out)

(***************************************************************************)
(* C31.  Copy transfer counts.  In every reachable state produce(b)        *)
(* returns min(|b|, producible()), advances tail by that count modulo len  *)
(* and leaves head alone: 0 and no change on a full buffer, capacity()     *)
(* for an oversized input on an empty one; consume(b) returns              *)
(* min(|b|, consumable()), advances head by that count modulo len and      *)
(* leaves tail alone: 0 and no change on an empty buffer.                  *)
(***************************************************************************)
C31_TransferCounts ==
    /\ \A data \in Slices(MaxChunk) :
          LET r == produce(cbuf, data)
          IN  /\ r.n = Min(Len(data), producible(cbuf))
              /\ r.buf.tail = (cbuf.tail + r.n) % cbuf.len
              /\ r.buf.head = cbuf.head
              /\ r.buf.len = cbuf.len
              /\ is_full(cbuf) => r.n = 0 /\ r.buf = cbuf
              /\ is_empty(cbuf) /\ Len(data) > capacity(cbuf) => r.n = capacity(cbuf)
    /\ \A L \in 0..MaxChunk :
          LET r == consume(cbuf, L)
          IN  /\ r.n = Min(L, consumable(cbuf))
              /\ Len(r.data) = r.n
              /\ r.buf.head = (cbuf.head + r.n) % cbuf.len
              /\ r.buf.tail = cbuf.tail
              /\ r.buf.len = cbuf.len
              /\ is_empty(cbuf) => r.n = 0 /\ r.buf = cbuf

\* An oversized slice was produced into the empty buffer of the largest
\* storage: capacity() bytes went in and the buffer is full.
C31_Witness ==
    /\ cbuf.len = MaxBufLen
    /\ cb_out = <<>>
    /\ Len(cb_in) = capacity(cbuf)
    /\ is_full(cbuf)
    /\ cbuf.head = 0
    /\ cbuf.tail = cbuf.len - 1

(***************************************************************************)
(* C32.  For every reachable (head, tail, len) the two segments of the     *)
(* producer view lie inside the storage, are disjoint from each other and  *)
(* from the two segments of the consumer view, and are producible() long   *)
(* together; the consumer segments are consumable() long together.  So     *)
(* the counts reported by produce, consume, produce_without_copy(n) and    *)
(* consume_without_copy(n) stay within producible() resp. consumable(),    *)
(* the latter two committing min(n, available) for every n.                *)
(***************************************************************************)
C32_Views ==
    LET p == ProducerRanges(cbuf)
        c == ConsumerRanges(cbuf)
        P == {i \in 0..cbuf.len : (p[1].start <= i /\ i < p[1].end) \/ (p[2].start <= i /\ i < p[2].end)}
        C == {i \in 0..cbuf.len : (c[1].start <= i /\ i < c[1].end) \/ (c[2].start <= i /\ i < c[2].end)}
    IN  /\ \A r \in {p[1], p[2], c[1], c[2]} :
              0 <= r.start /\ r.start <= r.end /\ r.end <= cbuf.len
        /\ P \cap C = {}
        /\ Cardinality(P) = RangeLen(p[1]) + RangeLen(p[2])
        /\ Cardinality(C) = RangeLen(c[1]) + RangeLen(c[2])
        /\ RangeLen(p[1]) + RangeLen(p[2]) = producible(cbuf)
        /\ RangeLen(c[1]) + RangeLen(c[2]) = consumable(cbuf)
        /\ \A data \in Slices(MaxChunk) : produce(cbuf, data).n <= producible(cbuf)
        /\ \A n \in 0..(MaxChunk + 1) :
              /\ consume(cbuf, n).n <= consumable(cbuf)
              /\ produce_without_copy(cbuf, n).n = Min(n, producible(cbuf))
              /\ consume_without_copy(cbuf, n).n = Min(n, consumable(cbuf))

\* The producer view is split: free slots up to the end of the storage and
\* more at its start, after bytes have gone through the buffer.
C32_Witness ==
    /\ RangeLen(ProducerRanges(cbuf)[1]) > 0
    /\ RangeLen(ProducerRanges(cbuf)[2]) > 0
    /\ cbuf.head > 1
    /\ cb_out # <<>>

\* Task t is in the first call of connect ever made on this Connector.
FirstConnect(t) ==
    /\ connecting[t].pc = "init"
    /\ connecting[t].ret = None
    /\ c_aux.ops = <<>>
    /\ \A u \in Tasks \ {t} : connecting[u].pc = "idle" /\ connecting[u].ret = None

(***************************************************************************)
(* C33.  The assertion at the start of connect, on the pending connect     *)
(* handle, holds whenever connect is called on a Connector that is not     *)
(* shut down and on which connect has not been called before: the          *)
(* asserted condition is true and the call does not panic on it.           *)
(***************************************************************************)
C33_FirstConnectAssert ==
    [][\A t \in Tasks :
          ConnectInitiateStep(t) /\ FirstConnect(t) /\ ~c_inner.is_shutdown =>
              /\ c_inner.pending_io # None
              /\ connecting'[t].pc # "panicked"]_vars

\* With debug assertions compiled in, the first connect on a fresh
\* Connector has panicked on the assertion, nothing submitted.
C33_Witness ==
    /\ c_aux.debug
    /\ ~c_inner.is_shutdown
    /\ c_aux.poisoned
    /\ c_aux.ops = <<>>
    /\ c_inner.pending_io = None
    /\ \E t \in Tasks :
          /\ connecting[t].pc = "panicked"
          /\ \A u \in Tasks \ {t} : connecting[u].pc = "idle" /\ connecting[u].ret = None

(***************************************************************************)
(* C34.  Whenever the Sender's lock is free, a flush is in flight exactly  *)
(* when the ring buffer is not empty: no accepted byte sits in the buffer  *)
(* without a flush on its way, and no flush is outstanding over an empty   *)
(* buffer.                                                                 *)
(***************************************************************************)
C34_FlushIffBuffered ==
    (s_inner.pending_io # None) <=> ~is_empty(s_inner.buf)

\* write has added bytes behind a flush already in flight: the buffer
\* holds more than the flush covers.
C34_Witness ==
    /\ s_inner.pending_io # None
    /\ s_inner.pending_io[1].iov_len < consumable(s_inner.buf)
    /\ writer.pc = "idle"
    /\ writer.ret # None
    /\ writer.ret[1] > 0
    /\ ~s_inner.is_shutdown

(***************************************************************************)
(* The Sender with its scheduling: the executor runs a task that is ready  *)
(* to retry or to poll, and the backend completes every flush.             *)
(***************************************************************************)
\* A step of the task calling write: Sender_write_try or Sender_write_poll,
\* the only actions that change the task while it is at "try" or "poll".
Writer_runs == writer.pc \in {"try", "poll"} /\ writer' # writer

\* Weak fairness of Writer_runs, with ENABLED written out: the step is
\* enabled exactly when the task is at "try" or "poll".
FairWriter == []<>(writer.pc \notin {"try", "poll"}) \/ []<><<Writer_runs>>_vars

SpecSenderLive == SpecSender /\ FairSender /\ FairWriter

\* C35: a task suspended inside write on a full ring buffer when shutdown is
\* called is eventually resumed, and its write call returns, once the flush
\* in flight completes; shutdown leaves no writer suspended forever.
C35_ShutdownResumesWriter ==
    (writer.pc = "wait" /\ s_inner.is_shutdown /\ s_inner.pending_io # None)
        ~> (writer.pc = "idle")

\* The flush has completed with success after shutdown, SHUT_WR is issued,
\* nothing is in flight any more, and the writer is still suspended.
C35_Witness ==
    /\ writer.pc = "wait"
    /\ s_inner.is_shutdown
    /\ s_inner.pending_io = None
    /\ is_empty(s_inner.buf)
    /\ Len(s_aux.shut_wr) > 0
    /\ common.error = None

\* A sender that is never shut down, with the same scheduling.
NextSenderOpen ==
    \/ Sender_write_call
    \/ Sender_write_try
    \/ Sender_write_poll
    \/ Sender_complete
    \/ Sender_sibling_fail

SpecSenderOpen == InitSender /\ [][NextSenderOpen]_vars /\ FairSender /\ FairWriter

(***************************************************************************)
(* C36.  No lost wake-up on the send side: on a sender that is never shut  *)
(* down, a task suspended inside write on a full ring buffer, with a flush *)
(* in flight, eventually returns; a write of a non-empty input that had    *)
(* suspended returns a positive count, into room a completion freed, or    *)
(* the sticky error.                                                       *)
(***************************************************************************)
C36_NoLostWakeupSend ==
    /\ (writer.pc \in {"poll", "wait"} /\ s_inner.pending_io # None)
           ~> (writer.pc = "idle")
    /\ [][WriteTryStep /\ writer.waited /\ ~s_inner.is_shutdown /\ writer'.pc = "idle" =>
            IF common.error # None
            THEN writer'.ret = common.error
            ELSE /\ writer'.ret[1] > 0
                 /\ writer'.ret[1] = Min(Len(writer.buf), producible(s_inner.buf))]_vars

\* A write that had suspended on a full buffer returned a positive count on
\* a sender that is not shut down and carries no error.
C36_Witness ==
    /\ writer.pc = "idle"
    /\ writer.waited
    /\ writer.ret # None
    /\ writer.ret[1] > 0
    /\ ~s_inner.is_shutdown
    /\ common.error = None

\* The other outcome: the suspended write returned the sticky error.
C36_WitnessError ==
    /\ writer.pc = "idle"
    /\ writer.waited
    /\ writer.ret # None
    /\ writer.ret = common.error
    /\ ~s_inner.is_shutdown

(***************************************************************************)
(* The Receiver with the kernel at work during a fill: between the         *)
(* submission and the completion the kernel stores bytes through the       *)
(* iovecs it was handed, while reads go on.                                *)
(***************************************************************************)
\* The kernel stores bytes through the iovecs of the fill in flight; the
\* completion, and the count it reports, come later.
Receiver_kernel_store ==
    /\ driven = "receiver"
    /\ r_inner.pending_io # None
    /\ \E data \in FillInputs(FillLen) :
           r_inner' = [r_inner EXCEPT
                         !.buf = KernelWrite(@, r_inner.pending_io[1].iov, data)]
    /\ r_inner' # r_inner
    /\ UNCHANGED <<common, r_aux, reader, notReceiverVars>>

NextReceiverKernel == NextReceiver \/ Receiver_kernel_store

SpecReceiverKernel == InitReceiver /\ [][NextReceiverKernel]_vars

\* The storage slots of a pair of ranges.
RangeSlots(r) ==
    {i \in 0..MaxBufLen : (r[1].start <= i /\ i < r[1].end) \/ (r[2].start <= i /\ i < r[2].end)}

Reader_runs == reader.pc \in {"try", "poll"} /\ reader' # reader

\* Weak fairness of Reader_runs, with ENABLED written out.
FairReader == []<>(reader.pc \notin {"try", "poll"}) \/ []<><<Reader_runs>>_vars

\* The backend invokes the callback of every fill it was handed.
FairReceiver == WF_vars(Receiver_complete_end \/ Receiver_complete_data)

SpecReceiverLive == SpecReceiver /\ FairReceiver /\ FairReader

(***************************************************************************)
(* C37.  No lost wake-up on the receive side: a task that found the ring   *)
(* buffer empty in read, with a fill in flight, eventually returns; and a  *)
(* read that had suspended returns the bytes buffered (a positive count)   *)
(* after a positive completion, else 0 after a zero completion, else the   *)
(* error code after a negative one.                                        *)
(***************************************************************************)
C37_NoLostWakeupRecv ==
    /\ (reader.pc \in {"poll", "wait"} /\ r_inner.pending_io # None)
           ~> (reader.pc = "idle")
    /\ [][ReadTryStep /\ reader.waited /\ reader'.pc = "idle" =>
            IF consumable(r_inner.buf) > 0
            THEN /\ reader'.ret = Some(Min(reader.len, consumable(r_inner.buf)))
                 /\ reader'.ret[1] > 0
            ELSE IF r_inner.end_of_file
            THEN reader'.ret = Some(0)
            ELSE /\ common.error # None
                 /\ reader'.ret = common.error]_vars

\* A read that had suspended on the empty buffer returned a positive count.
C37_Witness ==
    /\ reader.pc = "idle"
    /\ reader.waited
    /\ reader.ret # None
    /\ reader.ret[1] > 0
    /\ ~r_inner.end_of_file
    /\ common.error = None

\* A read that had suspended returned 0 at end-of-file.
C37_WitnessEof ==
    /\ reader.pc = "idle"
    /\ reader.waited
    /\ reader.ret = Some(0)
    /\ r_inner.end_of_file
    /\ common.error = None

\* A read that had suspended returned the code of the failed fill.
C37_WitnessError ==
    /\ reader.pc = "idle"
    /\ reader.waited
    /\ reader.ret # None
    /\ reader.ret = common.error
    /\ r_aux.fill_failed
    /\ ~r_inner.end_of_file

(***************************************************************************)
(* C39.  After a fill completion has reported a negative result, the       *)
(* Receiver submits no further fill, whatever reads are performed on the   *)
(* bytes still in the ring buffer.                                         *)
(***************************************************************************)
C39_NoFillAfterError ==
    [][r_aux.fill_failed =>
          /\ r_aux'.nsub = r_aux.nsub
          /\ r_inner'.pending_io = None]_vars

\* A fill is in flight although an earlier one has failed: a read took
\* bytes that were still buffered and submitted it.
C39_Witness ==
    /\ r_aux.fill_failed
    /\ common.error # None
    /\ r_inner.pending_io # None
    /\ reader.pc = "idle"
    /\ reader.ret # None
    /\ reader.ret[1] > 0

(***************************************************************************)
(* The Acceptor up to its end: the last Arc<Acceptor> is released once no  *)
(* task is inside accept and no submitted accept holds its clone, and      *)
(* Inner::drop runs.                                                       *)
(***************************************************************************)
Acceptor_drop ==
    /\ driven = "acceptor"
    /\ acceptor.pc = "idle"
    /\ a_aux.in_flight = {}
    /\ LET st == Acceptor_Inner_drop(AcceptorSt)
       IN  AcceptorCommit(st)
    /\ acceptor' = [acceptor EXCEPT !.pc = "dropped"]
    /\ UNCHANGED <<writer, reader>>

NextAcceptorDrop == NextAcceptor \/ Acceptor_drop

SpecAcceptorDrop == InitAcceptor /\ [][NextAcceptorDrop]_vars

(***************************************************************************)
(* C40.  Whenever the lock of an Acceptor is free, the address slots       *)
(* allocated from addr_raw_slab are as many as the occupied slots of       *)
(* accept_slab, and the occupied slots own pairwise distinct addresses,    *)
(* none of which is on the free list; the free list names no slot twice    *)
(* (no address is freed twice), the alloc().unwrap() of                    *)
(* initiate_async_accepts has never failed, and it would not fail now.     *)
(***************************************************************************)
C40_AddrSlots ==
    LET sl   == a_inner.accept_slab
        rs   == a_inner.addr_raw_slab
        free == rs.free_indexes
        occ  == {k \in 0..(Len(sl.entries) - 1) : Slab_occupied(sl, k)}
    IN  /\ a_aux.ok
        /\ Cardinality(occ) = sl.len
        /\ RawSlab_allocated(rs) = sl.len
        /\ \A j, k \in occ : j # k => Slab_get(sl, j).addr # Slab_get(sl, k).addr
        /\ \A k \in occ : \A i \in 1..Len(free) : free[i] # Slab_get(sl, k).addr
        /\ \A i, j \in 1..Len(free) : i # j => free[i] # free[j]
        /\ \A i \in 1..Len(free) : free[i] \in 0..(RawSlab_capacity(rs) - 1)
        /\ sl.len < sl.cap => RawSlab_alloc(rs).ptr # None

\* A full backlog after slots were given back through each of the three
\* paths: a failed accept, an accepted connection with its refill, and none
\* of the slots still held sits on the free list.
C40_Witness ==
    /\ a_inner.accept_slab.len = ScenarioBacklog
    /\ Backlog = ScenarioBacklog
    /\ Len(a_aux.accepted) >= 2
    /\ common.error # None
    /\ a_inner.completed_indexes # <<>>
    /\ a_aux.in_flight # {}

\* The Acceptor was dropped with completed accepts queued: Inner::drop gave
\* their addresses back.
C40_WitnessDrop ==
    /\ acceptor.pc = "dropped"
    /\ Len(a_aux.completed) > Len(a_aux.accepted)
    /\ Backlog > 1
    /\ Len(a_inner.addr_raw_slab.free_indexes) = Backlog

=============================================================================
